---- MODULE Spec2Model ----
(***************************************************************************)
(* Model of gh-pr-analyzer: the merge-readiness analyzer                   *)
(* (src/src/gh_pr_analyzer/analyzer.py), the command line that runs it on  *)
(* a user's open pull requests (cli.py) and the GitHub client it fetches   *)
(* them with (github_client.py).                                           *)
(*                                                                         *)
(* Representation of Python values:                                        *)
(*   dict      a function with a domain of key strings; a key that is      *)
(*               missing is simply not in the DOMAIN (Get / GetOpt).       *)
(*   None      an optional value is a sequence of length <= 1:             *)
(*               None = <<>>, a present value v = <<v>>.  A JSON null is   *)
(*               modelled as a missing key wherever the code reads the key *)
(*               with dict.get(key), which gives None for both.            *)
(*   str       a TLA+ string when it holds no line break; a text that may  *)
(*               hold line breaks is the sequence of its lines, i.e. the   *)
(*               value of text.split("\n") (never empty: "" is <<"">>).    *)
(*   list      a sequence.                                                 *)
(*                                                                         *)
(* analyze_pr is a sequence of steps; pc names the step to take next,      *)
(* "done" after the return at line 226 and "raised" after a KeyError on a  *)
(* missing identity field.  The review labels and the state of the design  *)
(* (spec.md 4.1, steps 11 and 12) are two further steps from "done" to     *)
(* "complete", taken only by the specifications about them.                *)
(***************************************************************************)
EXTENDS Integers, Sequences, FiniteSets, TLC

(* previous holds what an earlier invocation on the same arguments         *)
(* returned, when there was one.                                            *)
VARIABLES pr_data, reviews, check_runs, review_threads, analysis, pc, previous

analyzeVars == <<pr_data, reviews, check_runs, review_threads, analysis, pc, previous>>

(* The command line (src/src/gh_pr_analyzer/cli.py): repo_url and parsed  *)
(* are the argument and the outcome of parse_repo_from_url.                *)
VARIABLES repo_url, parsed

parseVars == <<repo_url, parsed>>

(* The client (src/src/gh_pr_analyzer/github_client.py): endpoint is the   *)
(* argument of _request, transport what the HTTP library does with the     *)
(* request and request_outcome the outcome of _request.                    *)
VARIABLES endpoint, transport, request_outcome

requestVars == <<endpoint, transport, request_outcome>>

(* run holds the arguments and the locals of analyze_user_prs, its place   *)
(* in its body (run.pc) and, once it has ended, its exit code; console     *)
(* holds what display_results printed, one entry for each call, and files  *)
(* what export_to_html wrote.                                              *)
VARIABLES run, console, files

runVars == <<run, console, files>>

cliVars == <<parseVars, requestVars, runVars>>

vars == <<pr_data, reviews, check_runs, review_threads, analysis, pc, previous,
          cliVars>>

----------------------------------------------------------------------------
(* Bounds of the model. *)

MaxChecks == 1
MaxReviews == 1
MaxThreads == 1
MaxDirectBlockers == 2
MaxManyChecks == 4
MaxSummaryLines == 7
MaxManyReviews == 3
MaxManyThreads == 2
MaxOrderChecks == 2
MaxIncompleteRecords == 2
MaxLabels == 2
MaxSegments == 3
MaxPRs == 2

----------------------------------------------------------------------------
(* Python built-ins. *)

None == <<>>
Some(v) == <<v>>

Get(d, k, default) == IF k \in DOMAIN d THEN d[k] ELSE default

GetOpt(d, k) == IF k \in DOMAIN d THEN Some(d[k]) ELSE None

SeqUpTo(S, n) == UNION {[1..m -> S] : m \in 0..n}

Restrict(d, K) == [k \in K |-> d[k]]

RECURSIVE Join(_, _)
Join(sep, s) ==
    IF Len(s) = 0 THEN ""
    ELSE IF Len(s) = 1 THEN s[1]
    ELSE s[1] \o sep \o Join(sep, Tail(s))

Prefix(s, n) == SubSeq(s, 1, IF n < Len(s) THEN n ELSE Len(s))

Suffix(s, n) == SubSeq(s, IF Len(s) > n THEN Len(s) - n + 1 ELSE 1, Len(s))

----------------------------------------------------------------------------
(* The data model. *)

(* The kind and the description taken for each other. *)
MergeBlocker_swapped(type, description, details) ==
    [type |-> description, description |-> type, details |-> details]

MergeBlocker(type, description, details) ==
    [type |-> type, description |-> description, details |-> details]

PRAnalysis(repo, pr_number, title, url) ==
    [repo |-> repo, pr_number |-> pr_number, title |-> title, url |-> url,
     blockers |-> <<>>,
     ci_status |-> "unknown",
     review_status |-> "unknown",
     comments_status |-> "unknown",
     conflicts_status |-> "unknown",
     unresolved_comment_count |-> 0,
     failed_check_count |-> 0,
     pending_check_count |-> 0,
     failed_check_names |-> <<>>,
     pending_check_names |-> <<>>,
     unresolved_comment_urls |-> <<>>]

(* is_mergeable as a verdict on the checks alone. *)
is_mergeable_checks_only(a) ==
    \A i \in DOMAIN a.blockers : a.blockers[i].type # "FAILING_CHECK"

is_mergeable(a) == Len(a.blockers) = 0

----------------------------------------------------------------------------
(* analyze_pr: the values it derives from its arguments. *)

mergeable_state == Get(pr_data, "mergeable_state", "unknown")

mergeable == GetOpt(pr_data, "mergeable")

(* The conflict test on mergeable_state alone. *)
HasConflicts_state_only == mergeable_state = "dirty"

HasConflicts == mergeable = Some(FALSE) \/ mergeable_state = "dirty"

(* The failure test widened to cancelled runs. *)
IsFailedCheck_or_cancelled(check) ==
    GetOpt(check, "conclusion") \in {Some("failure"), Some("cancelled")}

IsFailedCheck(check) == GetOpt(check, "conclusion") = Some("failure")

failed_checks == SelectSeq(check_runs, IsFailedCheck)

FailedCheckName(check) == Get(check, "name", "Unknown check")

(* The names with a repeated name listed once. *)
FailedNames_distinct(failed) ==
    LET first == SelectSeq([i \in DOMAIN failed |-> i],
                           LAMBDA i : \A j \in 1..(i - 1) :
                                         FailedCheckName(failed[j]) # FailedCheckName(failed[i]))
    IN  [k \in DOMAIN first |-> FailedCheckName(failed[first[k]])]

FailedNames(failed) == [i \in DOMAIN failed |-> FailedCheckName(failed[i])]

(* Every run without a conclusion taken as pending, whatever its status. *)
IsPendingCheck_unconcluded(check) == GetOpt(check, "conclusion") = None

IsPendingCheck(check) ==
    /\ GetOpt(check, "status") # Some("completed")
    /\ GetOpt(check, "conclusion") = None

pending_checks == SelectSeq(check_runs, IsPendingCheck)

PendingCheckName(check) == Get(check, "name", "Unknown")

PendingNames(pending) == [i \in DOMAIN pending |-> PendingCheckName(pending[i])]

IsChangesRequested(review) == GetOpt(review, "state") = Some("CHANGES_REQUESTED")

changes_requested == SelectSeq(reviews, IsChangesRequested)

IsApproved(review) == GetOpt(review, "state") = Some("APPROVED")

approvals == SelectSeq(reviews, IsApproved)

IsPrivate ==
    Get(Get(Get(pr_data, "base", <<>>), "repo", <<>>), "private", FALSE)

(* summary.strip().split("\n") on a summary given as its lines.  Every line *)
(* of the model is either blank (only whitespace) or has no whitespace at   *)
(* its ends, so strip() removes exactly the blank lines at both ends, and   *)
(* leaves the empty string when nothing else is there.                      *)
BlankLines == {"", " "}

RECURSIVE LStrip(_)
LStrip(lines) ==
    IF lines = <<>> THEN <<>>
    ELSE IF Head(lines) \in BlankLines THEN LStrip(Tail(lines))
    ELSE lines

RECURSIVE RStrip(_)
RStrip(lines) ==
    IF lines = <<>> THEN <<>>
    ELSE IF lines[Len(lines)] \in BlankLines
         THEN RStrip(SubSeq(lines, 1, Len(lines) - 1))
    ELSE lines

StripSplit(summary) ==
    LET kept == RStrip(LStrip(summary))
    IN  IF kept = <<>> THEN <<"">> ELSE kept

(* "\n    ".join(lines), as the lines of the joined text. *)
JoinIndented(lines) ==
    [i \in 1..Len(lines) |-> IF i = 1 THEN lines[i] ELSE "    " \o lines[i]]

(* The first five lines instead of the last five. *)
ErrorLines_head(summary) ==
    IF summary # <<"">> THEN Prefix(StripSplit(summary), 5) ELSE <<>>

ErrorLines(summary) ==
    IF summary # <<"">> THEN Suffix(StripSplit(summary), 5) ELSE <<>>

ErrorDetail(check) ==
    LET output == Get(check, "output", <<>>)
        summary == Get(output, "summary", <<"">>)
        error_lines == ErrorLines(summary)
    IN  IF error_lines # <<>> THEN Some(JoinIndented(error_lines)) ELSE None

FailingCheckBlocker(check) ==
    MergeBlocker("FAILING_CHECK",
                 "Check '" \o FailedCheckName(check) \o "' failed",
                 ErrorDetail(check))

(* The "and N more" suffix from three pending runs on. *)
PendingCheckNames_from_three(pending) ==
    LET check_names == Join(", ", PendingNames(Prefix(pending, 3)))
    IN  IF Len(pending) >= 3
        THEN check_names \o " and " \o ToString(Len(pending) - 3) \o " more"
        ELSE check_names

PendingCheckNames(pending) ==
    LET check_names == Join(", ", PendingNames(Prefix(pending, 3)))
    IN  IF Len(pending) > 3
        THEN check_names \o " and " \o ToString(Len(pending) - 3) \o " more"
        ELSE check_names

PendingChecksBlocker(pending) ==
    MergeBlocker("PENDING_CHECKS",
                 ToString(Len(pending)) \o " check(s) still running",
                 Some(<<PendingCheckNames(pending)>>))

(* ci_status that reports pending for every list without a failure. *)
CIStatus_never_passing ==
    IF failed_checks # <<>> THEN "failing"
    ELSE IF check_runs # <<>> THEN "pending"
    ELSE "unknown"

(* ci_status with pending ranked above failing. *)
CIStatus_pending_first ==
    IF pending_checks # <<>> THEN "pending"
    ELSE IF failed_checks # <<>> THEN "failing"
    ELSE IF check_runs # <<>> THEN "passing"
    ELSE "unknown"

CIStatus ==
    IF failed_checks # <<>> THEN "failing"
    ELSE IF pending_checks # <<>> THEN "pending"
    ELSE IF check_runs # <<>> THEN "passing"
    ELSE "unknown"

(* user and user.get("login"): the user is a non-empty dict with a         *)
(* non-empty login.                                                        *)
HasLogin(review) ==
    LET user == Get(review, "user", <<>>)
    IN  DOMAIN user # {} /\ Get(user, "login", "") # ""

reviewer_logins ==
    LET named == SelectSeq(changes_requested, HasLogin)
    IN  [i \in DOMAIN named |-> named[i].user.login]

Range(s) == {s[i] : i \in DOMAIN s}

(* The logins joined as collected, without set(). *)
SetOrders_list(logins) == {logins}

(* set(reviewer_logins): Python iterates a set of strings in an order that *)
(* depends on the process's hash seed, so every order of the distinct      *)
(* logins is a possible outcome.                                           *)
SetOrders(logins) ==
    LET S == Range(logins)
    IN  {order \in [1..Cardinality(S) -> S] : Range(order) = S}

ChangesRequestedBlocker(order) ==
    MergeBlocker("CHANGES_REQUESTED",
                 "Changes requested by reviewer(s)",
                 Some(<<"Reviewers: " \o
                        (IF reviewer_logins # <<>> THEN Join(", ", order)
                         ELSE "Unknown reviewers")>>))

(* A thread counted only when it says that it is not resolved. *)
IsUnresolved_given(thread) == "isResolved" \in DOMAIN thread /\ ~thread.isResolved

(* Threads that are outdated left out of the unresolved ones. *)
IsUnresolved_current(thread) ==
    ~Get(thread, "isResolved", FALSE) /\ ~Get(thread, "isOutdated", FALSE)

IsUnresolved(thread) == ~Get(thread, "isResolved", FALSE)

unresolved_threads(threads) == SelectSeq(threads, IsUnresolved)

HasUrl(thread) ==
    LET comments == Get(Get(thread, "comments", <<>>), "nodes", <<>>)
    IN  comments # <<>> /\ Get(comments[1], "url", "") # ""

(* The URLs of all threads, resolved or not. *)
UnresolvedUrls_all(threads) ==
    LET linked == SelectSeq(threads, HasUrl)
    IN  [i \in DOMAIN linked |-> linked[i].comments.nodes[1].url]

UnresolvedUrls(threads) ==
    LET linked == SelectSeq(unresolved_threads(threads), HasUrl)
    IN  [i \in DOMAIN linked |-> linked[i].comments.nodes[1].url]

----------------------------------------------------------------------------
(* analyze_pr, one action per step of its body. *)

(* A blocker put at the head of the list. *)
Append1_front(a, blocker) == [a EXCEPT !.blockers = <<blocker>> \o @]

Append1(a, blocker) == [a EXCEPT !.blockers = Append(@, blocker)]

(* Lines 66-74: the identity fields and the fresh PRAnalysis.  Each of     *)
(* pr_data["base"]["repo"]["full_name"], pr_data["number"],                *)
(* pr_data["title"] and pr_data["html_url"] raises KeyError when its key   *)
(* is missing; analyze_pr then ends without a PRAnalysis (pc = "raised").  *)
HasRepoFullName ==
    /\ "base" \in DOMAIN pr_data
    /\ "repo" \in DOMAIN pr_data.base
    /\ "full_name" \in DOMAIN pr_data.base.repo

(* mergeable_state read by subscript as well. *)
HasIdentity_with_state ==
    /\ HasRepoFullName
    /\ {"number", "title", "html_url", "mergeable_state"} \subseteq DOMAIN pr_data

HasIdentity ==
    /\ HasRepoFullName
    /\ {"number", "title", "html_url"} \subseteq DOMAIN pr_data

(* Missing identity fields replaced by defaults instead of an error. *)
ConstructOutcome_defaults ==
    [pc |-> "conflicts",
     analysis |->
       PRAnalysis(Get(Get(Get(pr_data, "base", <<>>), "repo", <<>>), "full_name", ""),
                  Get(pr_data, "number", 0), Get(pr_data, "title", ""),
                  Get(pr_data, "html_url", ""))]

ConstructOutcome ==
    IF HasIdentity
    THEN [pc |-> "conflicts",
          analysis |-> PRAnalysis(pr_data.base.repo.full_name, pr_data.number,
                                  pr_data.title, pr_data.html_url)]
    ELSE [pc |-> "raised", analysis |-> None]

Construct ==
    /\ pc = "start"
    /\ analysis' = ConstructOutcome.analysis
    /\ review_threads' = IF ConstructOutcome.pc = "conflicts" /\ review_threads = None
                         THEN Some(<<>>) ELSE review_threads
    /\ pc' = ConstructOutcome.pc
    /\ UNCHANGED <<pr_data, reviews, check_runs, previous, cliVars>>

(* Lines 76-92. *)
CheckMergeableState ==
    /\ pc = "conflicts"
    /\ analysis' =
         IF HasConflicts
         THEN Append1([analysis EXCEPT !.conflicts_status = "conflicts"],
                      MergeBlocker("MERGE_CONFLICT", "PR has merge conflicts",
                                   Some(<<"Resolve conflicts with the base branch">>)))
         ELSE IF mergeable = Some(TRUE)
         THEN [analysis EXCEPT !.conflicts_status = "clean"]
         ELSE [analysis EXCEPT !.conflicts_status = "unknown"]
    /\ pc' = "failing"
    /\ UNCHANGED <<pr_data, reviews, check_runs, review_threads, previous, cliVars>>

(* Lines 94-114. *)
CheckFailingChecks ==
    /\ pc = "failing"
    /\ analysis' =
         [analysis EXCEPT
            !.failed_check_count = Len(failed_checks),
            !.failed_check_names = FailedNames(failed_checks),
            !.blockers = @ \o [i \in DOMAIN failed_checks |->
                                 FailingCheckBlocker(failed_checks[i])]]
    /\ pc' = "pending"
    /\ UNCHANGED <<pr_data, reviews, check_runs, review_threads, previous, cliVars>>

(* Lines 116-134. *)
CheckPendingChecks ==
    /\ pc = "pending"
    /\ analysis' =
         LET counted == [analysis EXCEPT
                           !.pending_check_count = Len(pending_checks),
                           !.pending_check_names = PendingNames(pending_checks)]
         IN  IF pending_checks # <<>>
             THEN Append1(counted, PendingChecksBlocker(pending_checks))
             ELSE counted
    /\ pc' = "ci"
    /\ UNCHANGED <<pr_data, reviews, check_runs, review_threads, previous, cliVars>>

(* Lines 136-144. *)
SetCIStatus ==
    /\ pc = "ci"
    /\ analysis' = [analysis EXCEPT !.ci_status = CIStatus]
    /\ pc' = "changes"
    /\ UNCHANGED <<pr_data, reviews, check_runs, review_threads, previous, cliVars>>

(* Lines 146-164. *)
CheckChangesRequested ==
    /\ pc = "changes"
    /\ IF changes_requested # <<>>
       THEN \E order \in SetOrders(reviewer_logins) :
               analysis' = Append1([analysis EXCEPT !.review_status = "changes_requested"],
                                   ChangesRequestedBlocker(order))
       ELSE analysis' = analysis
    /\ pc' = "approvals"
    /\ UNCHANGED <<pr_data, reviews, check_runs, review_threads, previous, cliVars>>

(* Lines 166-169. *)
ReviewStatusAfterApprovals(review_status) ==
    IF approvals # <<>> THEN "approved" ELSE review_status

CheckApprovals ==
    /\ pc = "approvals"
    /\ analysis' = [analysis EXCEPT !.review_status = ReviewStatusAfterApprovals(@)]
    /\ pc' = "missing"
    /\ UNCHANGED <<pr_data, reviews, check_runs, review_threads, previous, cliVars>>

(* Lines 171-182. *)
(* The missing-approvals test without the private-repository condition. *)
MissingApprovals_any_repo == approvals = <<>> /\ mergeable_state = "blocked"

MissingApprovals == IsPrivate /\ approvals = <<>> /\ mergeable_state = "blocked"

CheckMissingApprovals ==
    /\ pc = "missing"
    /\ analysis' =
         IF MissingApprovals
         THEN Append1([analysis EXCEPT !.review_status = "pending"],
                      MergeBlocker("MISSING_APPROVALS", "Required approvals missing",
                                   Some(<<"This PR may require approval from code owners">>)))
         ELSE analysis
    /\ pc' = "fallback"
    /\ UNCHANGED <<pr_data, reviews, check_runs, review_threads, previous, cliVars>>

(* Lines 184-189. *)
(* The fallback that never reports pending. *)
FallbackReviewStatus_none(review_status) ==
    IF review_status = "unknown" THEN "none" ELSE review_status

FallbackReviewStatus(review_status) ==
    IF review_status = "unknown"
    THEN (IF reviews # <<>> THEN "pending" ELSE "none")
    ELSE review_status

SetReviewStatus ==
    /\ pc = "fallback"
    /\ analysis' = [analysis EXCEPT !.review_status = FallbackReviewStatus(@)]
    /\ pc' = "comments"
    /\ UNCHANGED <<pr_data, reviews, check_runs, review_threads, previous, cliVars>>

(* Lines 191-214. *)
CheckUnresolvedComments ==
    /\ pc = "comments"
    /\ analysis' =
         LET threads == review_threads[1]
             unresolved == unresolved_threads(threads)
         IN  IF threads # <<>>
             THEN LET counted == [analysis EXCEPT
                                    !.unresolved_comment_count = Len(unresolved),
                                    !.unresolved_comment_urls = UnresolvedUrls(threads)]
                  IN  IF unresolved # <<>>
                      THEN Append1([counted EXCEPT !.comments_status = "unresolved"],
                                   MergeBlocker("UNRESOLVED_COMMENTS",
                                                ToString(Len(unresolved))
                                                  \o " unresolved review comment(s)",
                                                Some(<<"Review and resolve all discussion threads">>)))
                      ELSE [counted EXCEPT !.comments_status = "resolved"]
             ELSE [analysis EXCEPT !.comments_status = "none"]
    /\ pc' = "protection"
    /\ UNCHANGED <<pr_data, reviews, check_runs, review_threads, previous, cliVars>>

(* Lines 216-226: the catch-all, then the return. *)
(* The catch-all without its "no blocker yet" condition. *)
NeedsBranchProtection_always(blockers) == mergeable_state = "blocked"

NeedsBranchProtection(blockers) == mergeable_state = "blocked" /\ blockers = <<>>

CheckBranchProtection ==
    /\ pc = "protection"
    /\ analysis' =
         IF NeedsBranchProtection(analysis.blockers)
         THEN Append1(analysis,
                      MergeBlocker("BRANCH_PROTECTION", "Blocked by branch protection rules",
                                   Some(<<"Check repository branch protection settings">>)))
         ELSE analysis
    /\ pc' = "done"
    /\ UNCHANGED <<pr_data, reviews, check_runs, review_threads, previous, cliVars>>

NextAnalyze ==
    \/ Construct
    \/ CheckMergeableState
    \/ CheckFailingChecks
    \/ CheckPendingChecks
    \/ SetCIStatus
    \/ CheckChangesRequested
    \/ CheckApprovals
    \/ CheckMissingApprovals
    \/ SetReviewStatus
    \/ CheckUnresolvedComments
    \/ CheckBranchProtection

(* A PRAnalysis built directly and its blockers list appended to, as the   *)
(* tests of the dataclass do.                                              *)
BlockerTypes ==
    {"MERGE_CONFLICT", "FAILING_CHECK", "PENDING_CHECKS", "CHANGES_REQUESTED",
     "MISSING_APPROVALS", "UNRESOLVED_COMMENTS", "BRANCH_PROTECTION"}

AppendBlocker ==
    /\ pc = "direct"
    /\ Len(analysis.blockers) < MaxDirectBlockers
    /\ \E type \in BlockerTypes :
          analysis' = Append1(analysis, MergeBlocker(type, "Test failed", None))
    /\ UNCHANGED <<pr_data, reviews, check_runs, review_threads, pc, previous, cliVars>>

Next == NextAnalyze \/ AppendBlocker

(* analyze_pr invoked once more on the arguments of an invocation that has *)
(* returned, in this or in another run of the program; what the first      *)
(* invocation returned is kept for comparison.                             *)
AnalyzeAgain ==
    /\ pc = "done"
    /\ previous = None
    /\ previous' = Some(analysis)
    /\ analysis' = None
    /\ pc' = "start"
    /\ UNCHANGED <<pr_data, reviews, check_runs, review_threads, cliVars>>

NextTwice == NextAnalyze \/ AnalyzeAgain

----------------------------------------------------------------------------
(* Review labels and state: steps 11 and 12 of the analyzer's design       *)
(* (spec.md, section 4.1), which tests/test_analyzer.py exercises through  *)
(* analysis.review_labels and analysis.state.  analyzer.py does not hold   *)
(* their code, so they are modelled from the design: two further steps     *)
(* after the last step of analyze_pr, each adding its field to the         *)
(* analysis.                                                               *)

ReviewLabel(username, status) == [username |-> username, status |-> status]

StartsWith(s, prefix) ==
    Len(s) >= Len(prefix) /\ SubSeq(s, 1, Len(prefix)) = prefix

EndsWith(s, suffix) ==
    Len(s) >= Len(suffix) /\ SubSeq(s, Len(s) - Len(suffix) + 1, Len(s)) = suffix

(* The patterns with commented-<user> parsed as well. *)
LabelRules_with_commented ==
    <<[prefix |-> "lgtm-", status |-> "lgtm"],
      [prefix |-> "approved-", status |-> "approved"],
      [prefix |-> "changes-requested-", status |-> "changes-requested"],
      [prefix |-> "change-requested-", status |-> "changes-requested"],
      [prefix |-> "commented-", status |-> "commented"]>>

(* The prefix patterns, tried from the first to the last. *)
LabelRules ==
    <<[prefix |-> "lgtm-", status |-> "lgtm"],
      [prefix |-> "approved-", status |-> "approved"],
      [prefix |-> "changes-requested-", status |-> "changes-requested"],
      [prefix |-> "change-requested-", status |-> "changes-requested"]>>

(* Every name that ends in bot taken for a bot. *)
IsBot_any_bot(user) ==
    \/ user = "coderabbitai"
    \/ user = "openshift-virtualization-qe-bot"
    \/ EndsWith(user, "bot")

IsBot(user) ==
    \/ user = "coderabbitai"
    \/ user = "openshift-virtualization-qe-bot"
    \/ EndsWith(user, "[bot]")

(* The review label a label name stands for, if any. *)
ParseLabel(name) ==
    LET matching == SelectSeq(LabelRules, LAMBDA rule : StartsWith(name, rule.prefix))
    IN  IF matching = <<>> THEN None
        ELSE LET rule == matching[1]
                 user == SubSeq(name, Len(rule.prefix) + 1, Len(name))
             IN  IF IsBot(user) THEN None ELSE Some(ReviewLabel(user, rule.status))

RECURSIVE ParseLabels(_)
ParseLabels(labels) ==
    IF labels = <<>> THEN <<>>
    ELSE ParseLabel(Head(labels).name) \o ParseLabels(Tail(labels))

ParseReviewLabels ==
    /\ pc = "done"
    /\ analysis' = analysis @@ [review_labels |-> ParseLabels(Get(pr_data, "labels", <<>>))]
    /\ pc' = "state"
    /\ UNCHANGED <<pr_data, reviews, check_runs, review_threads, previous, cliVars>>

UpperCase == "ABCDEFGHIJKLMNOPQRSTUVWXYZ"

LowerCase == "abcdefghijklmnopqrstuvwxyz"

LowerChar(c) ==
    IF \E i \in 1..Len(UpperCase) : SubSeq(UpperCase, i, i) = c
    THEN LET i == CHOOSE i \in 1..Len(UpperCase) : SubSeq(UpperCase, i, i) = c
         IN  SubSeq(LowerCase, i, i)
    ELSE c

RECURSIVE Lower(_)
Lower(s) ==
    IF Len(s) = 0 THEN ""
    ELSE LowerChar(SubSeq(s, 1, 1)) \o Lower(SubSeq(s, 2, Len(s)))

Whitespace == {" ", "\t"}

RECURSIVE LStripText(_)
LStripText(s) ==
    IF Len(s) > 0 /\ SubSeq(s, 1, 1) \in Whitespace
    THEN LStripText(SubSeq(s, 2, Len(s)))
    ELSE s

IsWip(title) ==
    LET start == Lower(LStripText(title))
    IN  StartsWith(start, "wip:") \/ StartsWith(start, "[wip]") \/ StartsWith(start, "wip ")

(* The state with draft ranked above merged and closed. *)
DerivedState_draft_first ==
    IF Get(pr_data, "draft", FALSE) THEN "draft"
    ELSE IF Get(pr_data, "merged", FALSE) THEN "merged"
    ELSE IF Get(pr_data, "state", "open") = "closed" THEN "closed"
    ELSE IF IsWip(pr_data.title) THEN "wip"
    ELSE "open"

DerivedState ==
    IF Get(pr_data, "merged", FALSE) THEN "merged"
    ELSE IF Get(pr_data, "state", "open") = "closed" THEN "closed"
    ELSE IF Get(pr_data, "draft", FALSE) THEN "draft"
    ELSE IF IsWip(pr_data.title) THEN "wip"
    ELSE "open"

DeriveState ==
    /\ pc = "state"
    /\ analysis' = analysis @@ [state |-> DerivedState]
    /\ pc' = "complete"
    /\ UNCHANGED <<pr_data, reviews, check_runs, review_threads, previous, cliVars>>

NextWithLabels == NextAnalyze \/ ParseReviewLabels \/ DeriveState

----------------------------------------------------------------------------
(* The inputs the specifications draw from. *)

PRDataWith(m, s, p) ==
    LET repo == Restrict([full_name |-> "owner/repo",
                          private |-> IF p = None THEN FALSE ELSE p[1]],
                         {"full_name"} \cup (IF p = None THEN {} ELSE {"private"}))
    IN  Restrict([number |-> 123,
                  title |-> "Test PR",
                  html_url |-> "https://github.com/owner/repo/pull/123",
                  base |-> [repo |-> repo],
                  mergeable |-> IF m = None THEN FALSE ELSE m[1],
                  mergeable_state |-> IF s = None THEN "" ELSE s[1]],
                 {"number", "title", "html_url", "base"}
                   \cup (IF m = None THEN {} ELSE {"mergeable"})
                   \cup (IF s = None THEN {} ELSE {"mergeable_state"}))

Optional(S) == {None} \cup {Some(v) : v \in S}

PRDatas ==
    {PRDataWith(m, s, p) : m \in Optional(BOOLEAN),
                           s \in Optional({"clean", "dirty", "blocked"}),
                           p \in Optional(BOOLEAN)}

CleanPublicPR == PRDataWith(Some(TRUE), Some("clean"), Some(FALSE))

BlockedPrivatePR == PRDataWith(Some(TRUE), Some("blocked"), Some(TRUE))

SomeChecks ==
    {[name |-> "CI / Build", status |-> "completed", conclusion |-> "failure"],
     [name |-> "CI / Lint", status |-> "completed", conclusion |-> "success"],
     [name |-> "CI / Test", status |-> "in_progress"]}

SomeReviews ==
    {[user |-> [login |-> "reviewer1"], state |-> "CHANGES_REQUESTED"],
     [user |-> [login |-> "reviewer2"], state |-> "APPROVED"],
     [user |-> [login |-> "reviewer3"], state |-> "COMMENTED"]}

ThreadWith(resolved, url) ==
    [isResolved |-> resolved, isOutdated |-> FALSE,
     comments |-> [nodes |-> <<[url |-> url]>>]]

SomeThreads ==
    {ThreadWith(TRUE, "https://github.com/owner/repo/pull/123#discussion_r1"),
     ThreadWith(FALSE, "https://github.com/owner/repo/pull/123#discussion_r2")}

(* analyze_pr is not called. *)
NoAnalysis ==
    /\ pr_data = CleanPublicPR
    /\ check_runs = <<>>
    /\ reviews = <<>>
    /\ review_threads = None
    /\ analysis = None
    /\ pc = "unused"
    /\ previous = None

(* No command line is running: analyze_pr is called on its own. *)
NoParse ==
    /\ repo_url = ""
    /\ parsed = None

NoRequest ==
    /\ endpoint = ""
    /\ transport = None
    /\ request_outcome = None

NoRun ==
    /\ run = None
    /\ console = <<>>
    /\ files = <<>>

NoCommand == NoParse /\ NoRequest /\ NoRun

InitAnalyze(prs, checkLists, reviewLists, threadLists) ==
    /\ pr_data \in prs
    /\ check_runs \in checkLists
    /\ reviews \in reviewLists
    /\ review_threads \in threadLists
    /\ analysis = None
    /\ pc = "start"
    /\ previous = None
    /\ NoCommand

InitDirect ==
    /\ pr_data = CleanPublicPR
    /\ check_runs = <<>>
    /\ reviews = <<>>
    /\ review_threads = None
    /\ analysis = PRAnalysis("owner/repo", 123, "Test PR",
                             "https://github.com/owner/repo/pull/123")
    /\ pc = "direct"
    /\ previous = None
    /\ NoCommand

Init ==
    \/ InitAnalyze(PRDatas, SeqUpTo(SomeChecks, MaxChecks),
                   SeqUpTo(SomeReviews, MaxReviews),
                   Optional(SeqUpTo(SomeThreads, MaxThreads)))
    \/ InitDirect

Spec == Init /\ [][Next]_vars

(* Check runs in bulk: the run at position i is named "Check <i-1>" when   *)
(* it has a name.                                                          *)
CheckForms ==
    {"failed", "failed_bare", "passed", "cancelled", "running", "queued_bare",
     "completed_only"}

CheckAt(i, form) ==
    LET name == "Check " \o ToString(i - 1)
    IN  CASE form = "failed" ->
               [name |-> name, status |-> "completed", conclusion |-> "failure"]
          [] form = "failed_bare" -> [conclusion |-> "failure"]
          [] form = "passed" ->
               [name |-> name, status |-> "completed", conclusion |-> "success"]
          [] form = "cancelled" ->
               [name |-> name, status |-> "completed", conclusion |-> "cancelled"]
          [] form = "running" -> [name |-> name, status |-> "in_progress"]
          [] form = "queued_bare" -> [status |-> "queued"]
          [] form = "completed_only" -> [name |-> name, status |-> "completed"]

ManyChecks ==
    {[i \in DOMAIN forms |-> CheckAt(i, forms[i])] :
        forms \in SeqUpTo(CheckForms, MaxManyChecks)}

InitChecks == InitAnalyze({CleanPublicPR}, ManyChecks, {<<>>}, {None})

SpecChecks == InitChecks /\ [][NextAnalyze]_vars

(* One failing check run whose output summary has up to MaxSummaryLines    *)
(* lines; line i is "Line <i>" or blank.                                   *)
SummaryTexts ==
    UNION {[1..n -> {"text", "", " "}] : n \in 1..MaxSummaryLines}

SummaryOf(text) ==
    [i \in DOMAIN text |-> IF text[i] = "text" THEN "Line " \o ToString(i) ELSE text[i]]

FailedWith(output) ==
    Restrict([name |-> "CI / Test", status |-> "completed", conclusion |-> "failure",
              output |-> IF output = None THEN <<>> ELSE output[1]],
             {"name", "status", "conclusion"}
               \cup (IF output = None THEN {} ELSE {"output"}))

FailedOutputs ==
    {None, Some([title |-> "Tests failed"])}
      \cup {Some([summary |-> SummaryOf(text)]) : text \in SummaryTexts}

InitSummary ==
    InitAnalyze({CleanPublicPR}, {<<FailedWith(output)>> : output \in FailedOutputs},
                {<<>>}, {None})

SpecSummary == InitSummary /\ [][NextAnalyze]_vars

(* Reviews in bulk. *)
ReviewWith(state, user) ==
    Restrict([state |-> state, user |-> IF user = None THEN <<>> ELSE user[1]],
             {"state"} \cup (IF user = None THEN {} ELSE {"user"}))

ManyReviewKinds ==
    {ReviewWith("CHANGES_REQUESTED", user) :
        user \in {None, Some([id |-> 1]), Some([login |-> "reviewer1"]),
                  Some([login |-> "reviewer2"])}}
      \cup {ReviewWith("APPROVED", Some([login |-> "reviewer2"])),
             ReviewWith("COMMENTED", Some([login |-> "reviewer3"]))}

InitReviews ==
    InitAnalyze({CleanPublicPR, BlockedPrivatePR}, {<<>>},
                SeqUpTo(ManyReviewKinds, MaxManyReviews), {None})

SpecReviews == InitReviews /\ [][NextAnalyze]_vars

----------------------------------------------------------------------------
(* Review threads in bulk: the thread at position i has the flags given    *)
(* (a flag may be missing) and a comments connection of one of the forms   *)
(* below; its first comment's URL, when there is one, ends in r<i>.         *)
CommentForms == {"absent", "no_nodes", "empty", "no_url", "blank_url", "url", "two"}

CommentsAt(i, form) ==
    LET url == "https://github.com/owner/repo/pull/123#discussion_r" \o ToString(i)
    IN  CASE form = "no_nodes" -> [totalCount |-> 0]
          [] form = "empty" -> [nodes |-> <<>>]
          [] form = "no_url" -> [nodes |-> <<[body |-> "Fix this"]>>]
          [] form = "blank_url" -> [nodes |-> <<[url |-> ""]>>]
          [] form = "url" -> [nodes |-> <<[url |-> url]>>]
          [] form = "two" -> [nodes |-> <<[url |-> url], [url |-> url \o "_reply"]>>]
          [] OTHER -> <<>>

ThreadAt(i, resolved, outdated, form) ==
    Restrict([isResolved |-> IF resolved = None THEN FALSE ELSE resolved[1],
              isOutdated |-> outdated,
              comments |-> CommentsAt(i, form)],
             {"isOutdated"}
               \cup (IF resolved = None THEN {} ELSE {"isResolved"})
               \cup (IF form = "absent" THEN {} ELSE {"comments"}))

ThreadShapes == Optional(BOOLEAN) \X BOOLEAN \X CommentForms

ManyThreads ==
    {[i \in DOMAIN shapes |-> ThreadAt(i, shapes[i][1], shapes[i][2], shapes[i][3])] :
        shapes \in SeqUpTo(ThreadShapes, MaxManyThreads)}

InitThreads == InitAnalyze({CleanPublicPR}, {<<>>}, {<<>>}, Optional(ManyThreads))

SpecThreads == InitThreads /\ [][NextAnalyze]_vars

----------------------------------------------------------------------------
(* Every detector at once: a PR with each mergeable value, state and       *)
(* visibility, up to MaxOrderChecks check runs, reviews and threads.       *)
OrderPRs ==
    {PRDataWith(Some(m), Some(s), Some(p)) :
        m \in BOOLEAN, s \in {"clean", "dirty", "blocked"}, p \in BOOLEAN}

InitOrder ==
    InitAnalyze(OrderPRs, SeqUpTo(SomeChecks, MaxOrderChecks),
                SeqUpTo(SomeReviews, MaxReviews),
                Optional(SeqUpTo(SomeThreads, MaxThreads)))

SpecOrder == InitOrder /\ [][NextAnalyze]_vars

----------------------------------------------------------------------------
(* Two invocations on the same reviews. *)
InitTwice ==
    InitAnalyze({CleanPublicPR, BlockedPrivatePR}, {<<>>},
                SeqUpTo(ManyReviewKinds, MaxManyReviews), {Some(<<>>)})

SpecTwice == InitTwice /\ [][NextTwice]_vars

----------------------------------------------------------------------------
(* Incomplete inputs: a PR snapshot with any of its fields left out, and   *)
(* up to MaxIncompleteRecords check runs, reviews and threads in all, each *)
(* with fields left out.                                                   *)
BaseForms == {"absent", "no_repo", "no_full_name", "bare", "private"}

BaseOf(form) ==
    CASE form = "no_repo" -> [ref |-> "main"]
      [] form = "no_full_name" -> [repo |-> [private |-> TRUE]]
      [] form = "bare" -> [repo |-> [full_name |-> "owner/repo"]]
      [] form = "private" -> [repo |-> [full_name |-> "owner/repo", private |-> TRUE]]
      [] OTHER -> <<>>

PRDataOmitting(form, kept) ==
    Restrict([number |-> 123,
              title |-> "Test PR",
              html_url |-> "https://github.com/owner/repo/pull/123",
              base |-> BaseOf(form),
              mergeable |-> TRUE,
              mergeable_state |-> "blocked"],
             kept \cup (IF form = "absent" THEN {} ELSE {"base"}))

IncompletePRs ==
    {PRDataOmitting(form, kept) :
        form \in BaseForms,
        kept \in {K \in SUBSET {"number", "title", "html_url", "mergeable", "mergeable_state"} :
                    {"mergeable", "mergeable_state"} \cap K # {}
                      => {"number", "title", "html_url"} \subseteq K}}

IncompleteChecks ==
    {<<>>,
     [name |-> "CI / Build"],
     [status |-> "completed"],
     [conclusion |-> "failure"],
     [conclusion |-> "failure", output |-> <<>>],
     [name |-> "CI / Build", conclusion |-> "failure", output |-> [title |-> "Tests failed"]],
     [name |-> "CI / Build", status |-> "completed", conclusion |-> "failure",
      output |-> [summary |-> <<"Error: test_foo failed">>]]}

IncompleteReviews ==
    {<<>>,
     [user |-> [login |-> "reviewer1"]],
     [state |-> "CHANGES_REQUESTED"],
     [state |-> "CHANGES_REQUESTED", user |-> [id |-> 1]],
     [state |-> "CHANGES_REQUESTED", user |-> [login |-> "reviewer1"]]}

IncompleteThreads ==
    {<<>>,
     [isResolved |-> TRUE],
     [isResolved |-> FALSE],
     [comments |-> [totalCount |-> 0]],
     [comments |-> [nodes |-> <<>>]],
     [isResolved |-> FALSE, comments |-> [nodes |-> <<[body |-> "No URL here"]>>]],
     [isResolved |-> FALSE,
      comments |-> [nodes |-> <<[url |-> "https://github.com/owner/repo/pull/123#discussion_r1"]>>]]}

RecordCounts ==
    {n \in (0..MaxIncompleteRecords) \X (0..MaxIncompleteRecords) \X (0..MaxIncompleteRecords) :
        n[1] + n[2] + n[3] <= MaxIncompleteRecords}

InitIncomplete ==
    \E n \in RecordCounts :
        InitAnalyze(IncompletePRs,
                    [1..n[1] -> IncompleteChecks],
                    [1..n[2] -> IncompleteReviews],
                    {Some(threads) : threads \in [1..n[3] -> IncompleteThreads]}
                      \cup (IF n[3] = 0 THEN {None} ELSE {}))

SpecIncomplete == InitIncomplete /\ [][NextAnalyze]_vars

----------------------------------------------------------------------------
(* PR snapshots with labels: a status prefix (or another prefix) followed  *)
(* by a user name, and labels that are no review labels.                   *)
LabelPrefixes ==
    {"lgtm-", "approved-", "changes-requested-", "change-requested-", "commented-"}

LabelUsers ==
    {"alice", "bob", "coderabbitai", "openshift-virtualization-qe-bot",
     "somebot[bot]", "coderabbitai2", "robot"}

LabelNames ==
    {prefix \o user : prefix \in LabelPrefixes, user \in LabelUsers}
      \cup {"size/XS", "LGTM-alice", "alice"}

PRDataLabelled(names) ==
    [k \in DOMAIN CleanPublicPR \cup {"labels"} |->
        IF k = "labels" THEN [i \in DOMAIN names |-> [name |-> names[i]]]
        ELSE CleanPublicPR[k]]

LabelledPRs ==
    {CleanPublicPR} \cup {PRDataLabelled(names) : names \in SeqUpTo(LabelNames, MaxLabels)}

InitLabels == InitAnalyze(LabelledPRs, {<<>>}, {<<>>}, {None})

SpecLabels == InitLabels /\ [][NextWithLabels]_vars

(* PR snapshots with the fields the state is derived from. *)
StateTitles ==
    {"Test PR", "WIP: work in progress", "[WIP] some feature", "wip some changes",
     "  Wip: indented", "[wip]", "wip", "wipe the cache", "Fix [WIP] handling"}

PRDataInState(merged, state, draft, title) ==
    LET given == [merged |-> IF merged = None THEN FALSE ELSE merged[1],
                  state |-> IF state = None THEN "" ELSE state[1],
                  draft |-> IF draft = None THEN FALSE ELSE draft[1],
                  title |-> title]
        keys == DOMAIN CleanPublicPR
                  \cup (IF merged = None THEN {} ELSE {"merged"})
                  \cup (IF state = None THEN {} ELSE {"state"})
                  \cup (IF draft = None THEN {} ELSE {"draft"})
    IN  [k \in keys |-> IF k \in DOMAIN given THEN given[k] ELSE CleanPublicPR[k]]

StatePRs ==
    {PRDataInState(merged, state, draft, title) :
        merged \in Optional(BOOLEAN), state \in Optional({"open", "closed"}),
        draft \in Optional(BOOLEAN), title \in StateTitles}

InitState == InitAnalyze(StatePRs, {<<>>}, {<<>>}, {None})

SpecState == InitState /\ [][NextWithLabels]_vars

----------------------------------------------------------------------------
(* The command line: src/src/gh_pr_analyzer/cli.py.                        *)
(*                                                                         *)
(* A call's outcome is a record: [returns |-> value] when it returned and  *)
(* [raises |-> type, message |-> text] when it raised.                     *)

Returns(value) == [returns |-> value]

Raises(type, message) == [raises |-> type, message |-> message]

(* str.find for any of chars, counted from 1: 0 when none occurs. *)
FindAny(s, chars) ==
    LET at == {i \in 1..Len(s) : SubSeq(s, i, i) \in chars}
    IN  IF at = {} THEN 0 ELSE CHOOSE i \in at : \A j \in at : i <= j

(* str.split(sep) for a separator of one character. *)
RECURSIVE SplitOn(_, _)
SplitOn(s, sep) ==
    LET i == FindAny(s, {sep})
    IN  IF i = 0 THEN <<s>>
        ELSE <<SubSeq(s, 1, i - 1)>> \o SplitOn(SubSeq(s, i + 1, Len(s)), sep)

Letters == LowerCase \o UpperCase

SchemeChars == Letters \o "0123456789+-."

Chars(s) == {SubSeq(s, i, i) : i \in 1..Len(s)}

(* urllib.parse.urlparse, as far as parse_repo_from_url reads its result:  *)
(* a scheme is a letter followed by scheme characters up to the first      *)
(* colon; a network location follows "//" and ends before the first "/",   *)
(* "?" or "#"; the path ends before the fragment and the query.  The       *)
(* model's URLs hold no ";", so that no parameters are split off the path. *)
urlparse(u) ==
    LET colon == FindAny(u, {":"})
        hasScheme == /\ colon > 1
                     /\ SubSeq(u, 1, 1) \in Chars(Letters)
                     /\ \A i \in 1..(colon - 1) : SubSeq(u, i, i) \in Chars(SchemeChars)
        rest == IF hasScheme THEN SubSeq(u, colon + 1, Len(u)) ELSE u
        hasNetloc == StartsWith(rest, "//")
        after == SubSeq(rest, 3, Len(rest))
        delim == FindAny(after, {"/", "?", "#"})
        netloc == IF ~hasNetloc THEN ""
                  ELSE IF delim = 0 THEN after
                  ELSE SubSeq(after, 1, delim - 1)
        tail == IF ~hasNetloc THEN rest
                ELSE IF delim = 0 THEN ""
                ELSE SubSeq(after, delim, Len(after))
        hash == FindAny(tail, {"#"})
        unfragmented == IF hash = 0 THEN tail ELSE SubSeq(tail, 1, hash - 1)
        mark == FindAny(unfragmented, {"?"})
    IN  [scheme |-> IF hasScheme THEN Lower(SubSeq(u, 1, colon - 1)) ELSE "",
         netloc |-> netloc,
         path |-> IF mark = 0 THEN unfragmented ELSE SubSeq(unfragmented, 1, mark - 1)]

valid_domains == {"github.com", "api.github.com", "www.github.com"}

(* list.index, counted from 1. *)
Index(s, v) == CHOOSE i \in DOMAIN s : s[i] = v /\ \A j \in 1..(i - 1) : s[j] # v

(* The owner and the repository that follow the first "repos" segment,     *)
(* whatever stands before it.                                              *)
parse_repo_from_url_plain(u) ==
    LET parsed_url == urlparse(u)
        path_parts == SelectSeq(SplitOn(parsed_url.path, "/"), LAMBDA p : p # "")
    IN  IF parsed_url.netloc \notin valid_domains
        THEN Raises("ValueError", "Invalid GitHub URL domain: " \o parsed_url.netloc)
        ELSE IF Len(path_parts) < 2
        THEN Raises("ValueError", "Invalid GitHub repo URL: " \o u)
        ELSE Returns(<<path_parts[1], path_parts[2]>>)

(* Lines 22-55. *)
parse_repo_from_url(u) ==
    LET parsed_url == urlparse(u)
        path_parts == SelectSeq(SplitOn(parsed_url.path, "/"), LAMBDA p : p # "")
    IN  IF parsed_url.netloc \notin valid_domains
        THEN Raises("ValueError", "Invalid GitHub URL domain: " \o parsed_url.netloc)
        ELSE IF "repos" \in Range(path_parts)
        THEN LET idx == Index(path_parts, "repos")
             IN  IF Len(path_parts) < idx + 2
                 THEN Raises("ValueError", "Invalid GitHub repo URL: " \o u)
                 ELSE Returns(<<path_parts[idx + 1], path_parts[idx + 2]>>)
        ELSE IF Len(path_parts) < 2
        THEN Raises("ValueError", "Invalid GitHub repo URL: " \o u)
        ELSE Returns(<<path_parts[1], path_parts[2]>>)

(* One call of parse_repo_from_url. *)
ParseRepoFromUrl ==
    /\ parsed = None
    /\ parsed' = parse_repo_from_url(repo_url)
    /\ UNCHANGED <<analyzeVars, repo_url, requestVars, runVars>>

(* URLs to parse: a scheme or none, a host, path segments of which some    *)
(* are empty (doubled and trailing slashes), a query or none.              *)
UrlSchemes == {"https://", ""}

UrlHosts == {"github.com", "www.github.com", "api.github.com", "gitlab.com"}

UrlSegments == {"", "repos", "octo", "hello"}

UrlQueries == {"", "?tab=files"}

UrlPath(segments) == Join("", [i \in DOMAIN segments |-> "/" \o segments[i]])

UrlOf(scheme, host, segments, query) == scheme \o host \o UrlPath(segments) \o query

Urls ==
    {UrlOf(scheme, host, segments, query) :
       scheme \in UrlSchemes, host \in UrlHosts,
       segments \in SeqUpTo(UrlSegments, MaxSegments), query \in UrlQueries}

InitParse ==
    /\ NoAnalysis
    /\ NoRequest
    /\ NoRun
    /\ repo_url \in Urls
    /\ parsed = None

SpecParse == InitParse /\ [][ParseRepoFromUrl]_vars


----------------------------------------------------------------------------
(* The client: src/src/gh_pr_analyzer/github_client.py.                    *)
(*                                                                         *)
(* What the HTTP library does with a request is either a response          *)
(* [status |-> code, body |-> decoded JSON] or an exception                *)
(* [exception |-> type] of the library.                                    *)

Response(status, body) == [status |-> status, body |-> body]

TransportError(type) == [exception |-> type]

(* The exception classes of httpx that a request raises, each with its     *)
(* base class.                                                             *)
HttpxBase ==
    [ConnectTimeout |-> "TimeoutException", ReadTimeout |-> "TimeoutException",
     TimeoutException |-> "TransportError",
     ConnectError |-> "NetworkError", ReadError |-> "NetworkError",
     NetworkError |-> "TransportError",
     RemoteProtocolError |-> "ProtocolError", ProtocolError |-> "TransportError",
     TransportError |-> "RequestError", RequestError |-> "HTTPError",
     HTTPError |-> "Exception"]

RECURSIVE IsInstance(_, _)
IsInstance(type, class) ==
    \/ type = class
    \/ type \in DOMAIN HttpxBase /\ IsInstance(HttpxBase[type], class)

(* response.raise_for_status() raises for every status that is not 2xx. *)
IsSuccess(status) == status >= 200 /\ status <= 299

(* Lines 30-62: an exception of the library that no except clause names    *)
(* leaves _request as it is.                                               *)
_request(point, outcome) ==
    IF "exception" \in DOMAIN outcome
    THEN IF IsInstance(outcome.exception, "TimeoutException")
         THEN Raises("ValueError", "Request timed out after 30 seconds")
         ELSE IF IsInstance(outcome.exception, "ConnectError")
         THEN Raises("ValueError",
                     "Failed to connect to GitHub API. Check your network connection.")
         ELSE Raises(outcome.exception, "")
    ELSE IF IsSuccess(outcome.status) THEN Returns(outcome.body)
    ELSE IF outcome.status = 401
    THEN Raises("ValueError", "Invalid or expired GitHub token")
    ELSE IF outcome.status = 403
    THEN Raises("ValueError", "GitHub API rate limit exceeded or permission denied")
    ELSE IF outcome.status = 404
    THEN Raises("ValueError", "Resource not found: " \o point)
    ELSE Raises("ValueError", "GitHub API error: " \o ToString(outcome.status))

(* One call of _request. *)
Request ==
    /\ request_outcome = None
    /\ transport # None
    /\ request_outcome' = _request(endpoint, transport[1])
    /\ UNCHANGED <<analyzeVars, parseVars, endpoint, transport, runVars>>

(* Requests: the endpoints of the client's methods and, for each, the      *)
(* responses and the exceptions of the library.                            *)
Endpoints ==
    {"/user", "/search/issues", "/repos/octo/hello/pulls/1",
     "/repos/octo/hello/pulls/1/reviews", "/repos/octo/hello/pulls/1/comments",
     "/repos/octo/hello/commits/sha-1/check-runs"}

Bodies == {<<>>, [login |-> "octocat"], [items |-> <<>>]}

SuccessStatuses == {200}

ErrorStatuses == {401, 403, 404, 422, 500, 503}

TransportExceptions ==
    {"ConnectTimeout", "ReadTimeout", "ConnectError", "ReadError", "RemoteProtocolError"}

Transports ==
    {Response(status, body) : status \in SuccessStatuses, body \in Bodies}
      \cup {Response(status, [message |-> "error"]) : status \in ErrorStatuses}
      \cup {TransportError(type) : type \in TransportExceptions}

InitRequest ==
    /\ NoAnalysis
    /\ NoParse
    /\ NoRun
    /\ endpoint \in Endpoints
    /\ transport \in {Some(t) : t \in Transports}
    /\ request_outcome = None

SpecRequest == InitRequest /\ [][Request]_vars


----------------------------------------------------------------------------
(* analyze_user_prs, display_results and export_to_html                    *)
(* (src/src/gh_pr_analyzer/cli.py), with the client's methods they call.   *)

IsRaised(outcome) == "raises" \in DOMAIN outcome

(* A subscript on a decoded JSON object: KeyError when the key is missing. *)
Subscript(outcome, key) ==
    IF IsRaised(outcome) THEN outcome
    ELSE IF key \in DOMAIN outcome.returns THEN Returns(outcome.returns[key])
    ELSE Raises("KeyError", key)

(* github_client.py, lines 64-136. *)
get_authenticated_user(t) == _request("/user", t)

get_user_open_prs(username, t) == Subscript(_request("/search/issues", t), "items")

PullEndpoint(owner, repo, pr_number) ==
    "/repos/" \o owner \o "/" \o repo \o "/pulls/" \o ToString(pr_number)

get_pr_details(owner, repo, pr_number, t) ==
    _request(PullEndpoint(owner, repo, pr_number), t)

get_pr_reviews(owner, repo, pr_number, t) ==
    _request(PullEndpoint(owner, repo, pr_number) \o "/reviews", t)

get_pr_review_comments(owner, repo, pr_number, t) ==
    _request(PullEndpoint(owner, repo, pr_number) \o "/comments", t)

CheckRunsEndpoint(owner, repo, ref) ==
    "/repos/" \o owner \o "/" \o repo \o "/commits/" \o ref \o "/check-runs"

get_check_runs(owner, repo, ref, t) ==
    Subscript(_request(CheckRunsEndpoint(owner, repo, ref), t), "check_runs")

(* What GitHub holds: three open pull requests of the user octocat in two  *)
(* repositories of octo.  #1 is ready to merge, #2 is approved and green   *)
(* with two review comments, #3 has conflicts, a request for changes and a *)
(* failing check.                                                          *)
GitHubPRs == {1, 2, 3}

RepoOfPR(n) == IF n = 2 THEN "world" ELSE "hello"

ShaOfPR(n) == "sha-" \o ToString(n)

SearchItem(n) ==
    [number |-> n,
     title |-> "PR " \o ToString(n),
     repository_url |-> "https://api.github.com/repos/octo/" \o RepoOfPR(n)]

PullOfPR(n) ==
    [number |-> n,
     title |-> "PR " \o ToString(n),
     html_url |-> "https://github.com/octo/" \o RepoOfPR(n) \o "/pull/" \o ToString(n),
     head |-> [sha |-> ShaOfPR(n)],
     base |-> [repo |-> [full_name |-> "octo/" \o RepoOfPR(n), private |-> FALSE]],
     mergeable |-> n # 3,
     mergeable_state |-> IF n = 3 THEN "dirty" ELSE "clean"]

ReviewsOfPR(n) ==
    IF n = 3 THEN <<ReviewWith("CHANGES_REQUESTED", Some([login |-> "reviewer3"]))>>
    ELSE <<ReviewWith("APPROVED", Some([login |-> "reviewer" \o ToString(n)]))>>

(* Review comments as the REST API lists them: no isResolved, no thread. *)
ReviewComment(n, k) ==
    [id |-> 10 * n + k,
     body |-> "Please fix",
     html_url |-> "https://github.com/octo/" \o RepoOfPR(n) \o "/pull/" \o ToString(n)
                    \o "#discussion_r" \o ToString(10 * n + k)]

CommentsOfPR(n) == IF n = 2 THEN <<ReviewComment(n, 1), ReviewComment(n, 2)>> ELSE <<>>

CheckRunsOfPR(n) ==
    LET name == "build-" \o ToString(n)
    IN  IF n = 3 THEN <<[name |-> name, status |-> "completed", conclusion |-> "failure"]>>
        ELSE <<[name |-> name, status |-> "completed", conclusion |-> "success"]>>

(* The body GitHub serves at an endpoint, None where it has nothing. *)
GitHubBody(point) ==
    IF point = "/user" THEN Some([login |-> "octocat"])
    ELSE IF \E n \in GitHubPRs : point = PullEndpoint("octo", RepoOfPR(n), n)
    THEN Some(PullOfPR(CHOOSE n \in GitHubPRs : point = PullEndpoint("octo", RepoOfPR(n), n)))
    ELSE IF \E n \in GitHubPRs : point = PullEndpoint("octo", RepoOfPR(n), n) \o "/reviews"
    THEN Some(ReviewsOfPR(CHOOSE n \in GitHubPRs :
                            point = PullEndpoint("octo", RepoOfPR(n), n) \o "/reviews"))
    ELSE IF \E n \in GitHubPRs : point = PullEndpoint("octo", RepoOfPR(n), n) \o "/comments"
    THEN Some(CommentsOfPR(CHOOSE n \in GitHubPRs :
                             point = PullEndpoint("octo", RepoOfPR(n), n) \o "/comments"))
    ELSE IF \E n \in GitHubPRs : point = CheckRunsEndpoint("octo", RepoOfPR(n), ShaOfPR(n))
    THEN Some([check_runs |->
                 CheckRunsOfPR(CHOOSE n \in GitHubPRs :
                                 point = CheckRunsEndpoint("octo", RepoOfPR(n), ShaOfPR(n)))])
    ELSE None

(* What the HTTP library may do with a request for a body. *)
FailedTransports ==
    {Response(status, [message |-> "error"]) : status \in ErrorStatuses}
      \cup {TransportError(type) : type \in TransportExceptions}

TransportsOf(body) ==
    IF body = None THEN FailedTransports
    ELSE {Response(200, body[1])} \cup FailedTransports

(* The lists of open pull requests a search may return. *)
OpenPRLists ==
    {[i \in DOMAIN numbers |-> SearchItem(numbers[i])] :
       numbers \in {ns \in SeqUpTo(GitHubPRs, MaxPRs) :
                      \A i, j \in DOMAIN ns : i # j => ns[i] # ns[j]}}

(* The error printed and the run ended without an exit code. *)
Failed_quiet(r, outcome, where) ==
    [r EXCEPT !.pc = "exited",
              !.error = Some([type |-> outcome.raises, message |-> outcome.message,
                              raised_in |-> where])]

(* Lines 522-527: both except clauses print the error and exit with 1. *)
Failed(r, outcome, where) ==
    [r EXCEPT !.pc = "exited", !.exit_code = Some(1),
              !.error = Some([type |-> outcome.raises, message |-> outcome.message,
                              raised_in |-> where])]

(* Lines 479-483. *)
GetAuthenticatedUser ==
    /\ run # None
    /\ run.pc = "user"
    /\ IF run.username # None /\ run.username # Some("")
       THEN run' = [run EXCEPT !.pc = "prs"]
       ELSE \E t \in TransportsOf(GitHubBody("/user")) :
              LET user_data == Subscript(get_authenticated_user(t), "login")
              IN  run' = IF IsRaised(user_data)
                         THEN Failed(run, user_data, "get_authenticated_user")
                         ELSE [run EXCEPT !.username = Some(user_data.returns),
                                          !.pc = "prs"]
    /\ UNCHANGED <<analyzeVars, parseVars, requestVars, console, files>>

(* Lines 485-493: no open pull request ends the run at once. *)
GetUserOpenPRs ==
    /\ run # None
    /\ run.pc = "prs"
    /\ \E items \in OpenPRLists :
         \E t \in TransportsOf(Some([items |-> items])) :
           LET prs == get_user_open_prs(run.username[1], t)
           IN  run' = IF IsRaised(prs) THEN Failed(run, prs, "get_user_open_prs")
                      ELSE IF prs.returns = <<>>
                      THEN [run EXCEPT !.pc = "returned", !.exit_code = Some(0)]
                      ELSE [run EXCEPT !.prs = prs.returns, !.pr = 1, !.pc = "repo"]
    /\ UNCHANGED <<analyzeVars, parseVars, requestVars, console, files>>

(* Lines 497-501. *)
RepoExtracted(r, pr, pair) ==
    IF IsRaised(pair) THEN Failed(r, pair, "parse_repo_from_url")
    ELSE [r EXCEPT !.owner = pair.returns[1], !.repo = pair.returns[2],
                   !.pr_number = pr["number"], !.pc = "details"]

ExtractRepo ==
    /\ run # None
    /\ run.pc = "repo"
    /\ run' = RepoExtracted(run, run.prs[run.pr],
                            parse_repo_from_url(run.prs[run.pr].repository_url))
    /\ UNCHANGED <<analyzeVars, parseVars, requestVars, console, files>>

(* Line 505. *)
GetPRDetails ==
    /\ run # None
    /\ run.pc = "details"
    /\ \E t \in TransportsOf(GitHubBody(PullEndpoint(run.owner, run.repo, run.pr_number))) :
         LET pr_details == get_pr_details(run.owner, run.repo, run.pr_number, t)
         IN  run' = IF IsRaised(pr_details) THEN Failed(run, pr_details, "get_pr_details")
                    ELSE [run EXCEPT !.pr_details = pr_details.returns, !.pc = "reviews"]
    /\ UNCHANGED <<analyzeVars, parseVars, requestVars, console, files>>

(* Line 506. *)
GetPRReviews ==
    /\ run # None
    /\ run.pc = "reviews"
    /\ \E t \in TransportsOf(GitHubBody(PullEndpoint(run.owner, run.repo, run.pr_number)
                                          \o "/reviews")) :
         LET fetched == get_pr_reviews(run.owner, run.repo, run.pr_number, t)
         IN  run' = IF IsRaised(fetched) THEN Failed(run, fetched, "get_pr_reviews")
                    ELSE [run EXCEPT !.reviews = fetched.returns, !.pc = "comments"]
    /\ UNCHANGED <<analyzeVars, parseVars, requestVars, console, files>>

(* Line 507. *)
GetPRReviewComments ==
    /\ run # None
    /\ run.pc = "comments"
    /\ \E t \in TransportsOf(GitHubBody(PullEndpoint(run.owner, run.repo, run.pr_number)
                                          \o "/comments")) :
         LET fetched == get_pr_review_comments(run.owner, run.repo, run.pr_number, t)
         IN  run' = IF IsRaised(fetched) THEN Failed(run, fetched, "get_pr_review_comments")
                    ELSE [run EXCEPT !.review_comments = fetched.returns, !.pc = "checks"]
    /\ UNCHANGED <<analyzeVars, parseVars, requestVars, console, files>>

(* Lines 508-509. *)
GetCheckRuns ==
    /\ run # None
    /\ run.pc = "checks"
    /\ LET head_sha == Subscript(Subscript(Returns(run.pr_details), "head"), "sha")
       IN  IF IsRaised(head_sha)
           THEN run' = Failed(run, head_sha, "analyze_user_prs")
           ELSE \E t \in TransportsOf(GitHubBody(CheckRunsEndpoint(run.owner, run.repo,
                                                                   head_sha.returns))) :
                  LET fetched == get_check_runs(run.owner, run.repo, head_sha.returns, t)
                  IN  run' = IF IsRaised(fetched)
                             THEN Failed(run, fetched, "get_check_runs")
                             ELSE [run EXCEPT !.check_runs = fetched.returns,
                                              !.pc = "analyze"]
    /\ UNCHANGED <<analyzeVars, parseVars, requestVars, console, files>>

(* Line 512, the call: analyze_pr starts on what was fetched. *)
AnalyzePR ==
    /\ run # None
    /\ run.pc = "analyze"
    /\ pr_data' = run.pr_details
    /\ reviews' = run.reviews
    /\ check_runs' = run.check_runs
    /\ review_threads' = Some(run.review_comments)
    /\ analysis' = None
    /\ pc' = "start"
    /\ run' = [run EXCEPT !.pc = "analysing"]
    /\ UNCHANGED <<previous, parseVars, requestVars, console, files>>

(* The analysis put at the head of the list. *)
Collected_front(analyses, a) == <<a>> \o analyses

(* Line 513. *)
Collected(analyses, a) == Append(analyses, a)

(* Lines 512-513, the return, and the loop's next turn (line 497). *)
CollectAnalysis ==
    /\ run # None
    /\ run.pc = "analysing"
    /\ pc \in {"done", "raised"}
    /\ run' = IF pc = "raised"
              THEN Failed(run, Raises("KeyError", ""), "analyze_pr")
              ELSE [run EXCEPT !.analyses = Collected(@, analysis),
                               !.pr = @ + 1,
                               !.pc = IF run.pr < Len(run.prs) THEN "repo" ELSE "display"]
    /\ UNCHANGED <<analyzeVars, parseVars, requestVars, console, files>>

(* Blocked counted by failing checks. *)
display_counts_by_checks(analyses) ==
    [mergeable_count |-> Len(SelectSeq(analyses, is_mergeable)),
     blocked_count |-> Len(SelectSeq(analyses, LAMBDA a : a.failed_check_count > 0))]

(* display_results, lines 551-559: the counts of the summary. *)
RECURSIVE display_counts(_)
display_counts(analyses) ==
    IF analyses = <<>> THEN [mergeable_count |-> 0, blocked_count |-> 0]
    ELSE LET before == display_counts(SubSeq(analyses, 1, Len(analyses) - 1))
             last == analyses[Len(analyses)]
         IN  IF is_mergeable(last)
             THEN [before EXCEPT !.mergeable_count = @ + 1]
             ELSE [before EXCEPT !.blocked_count = @ + 1]

(* Lines 530-633: a row for each analysis (the repository, the number and  *)
(* the title cut to 50 characters; the status cells are left out), then    *)
(* the summary.                                                            *)
display_results(analyses) ==
    [rows |-> [k \in DOMAIN analyses |->
                 [repo |-> analyses[k].repo, pr_number |-> analyses[k].pr_number,
                  title |-> Prefix(analyses[k].title, 50)]],
     ready |-> display_counts(analyses).mergeable_count,
     blocked |-> display_counts(analyses).blocked_count,
     total |-> Len(analyses)]

(* Line 516. *)
DisplayResults ==
    /\ run # None
    /\ run.pc = "display"
    /\ console' = Append(console, display_results(run.analyses))
    /\ run' = IF run.html_output # None /\ run.html_output # Some("")
              THEN [run EXCEPT !.pc = "export"]
              ELSE [run EXCEPT !.pc = "returned", !.exit_code = Some(0)]
    /\ UNCHANGED <<analyzeVars, parseVars, requestVars, files>>

(* export_to_html, lines 58-71 and 336-350: the statistics of the report. *)
export_to_html(analyses, filename, username, is_authenticated) ==
    LET mergeable_count == Len(SelectSeq(analyses, is_mergeable))
        blocked_count == Len(analyses) - mergeable_count
    IN  [filename |-> filename, username |-> username,
         is_authenticated |-> is_authenticated,
         total |-> Len(analyses), ready |-> mergeable_count, blocked |-> blocked_count]

(* Lines 519-520; writing the file may fail (line 461). *)
ExportToHtml ==
    /\ run # None
    /\ run.pc = "export"
    /\ \/ /\ files' = Append(files, export_to_html(run.analyses, run.html_output[1],
                                                   run.username[1], run.is_authenticated))
          /\ run' = [run EXCEPT !.pc = "returned", !.exit_code = Some(0)]
       \/ /\ files' = files
          /\ run' = Failed(run, Raises("OSError", "Permission denied"), "export_to_html")
    /\ UNCHANGED <<analyzeVars, parseVars, requestVars, console>>

NextRun ==
    \/ GetAuthenticatedUser
    \/ GetUserOpenPRs
    \/ ExtractRepo
    \/ GetPRDetails
    \/ GetPRReviews
    \/ GetPRReviewComments
    \/ GetCheckRuns
    \/ AnalyzePR
    \/ NextAnalyze
    \/ CollectAnalysis
    \/ DisplayResults
    \/ ExportToHtml

(* Lines 465-477: the arguments, and a client with a token or without. *)
InitRun ==
    /\ NoAnalysis
    /\ NoParse
    /\ NoRequest
    /\ \E username \in Optional({"octocat"}), html_output \in Optional({"report.html"}),
          is_authenticated \in BOOLEAN :
         run = [pc |-> "user", username |-> username, html_output |-> html_output,
                is_authenticated |-> is_authenticated,
                prs |-> <<>>, pr |-> 0, owner |-> "", repo |-> "", pr_number |-> 0,
                pr_details |-> <<>>, reviews |-> <<>>, review_comments |-> <<>>,
                check_runs |-> <<>>, analyses |-> <<>>,
                exit_code |-> None, error |-> None]
    /\ console = <<>>
    /\ files = <<>>

SpecRun == InitRun /\ [][NextRun]_vars

----------------------------------------------------------------------------
(* What the properties below read off a state. *)

Built == pc \notin {"start", "raised"}

Returned == pc = "done"

BlockersOfType(type) == SelectSeq(analysis.blockers, LAMBDA b : b.type = type)

HasBlocker(type) == BlockersOfType(type) # <<>>

(* The inputs, read without the analyzer's own helpers. *)
StateIsBlocked ==
    "mergeable_state" \in DOMAIN pr_data /\ pr_data.mergeable_state = "blocked"

StateIsDirty ==
    "mergeable_state" \in DOMAIN pr_data /\ pr_data.mergeable_state = "dirty"

MergeableIs(value) == "mergeable" \in DOMAIN pr_data /\ pr_data.mergeable = value

RepoIsPrivate ==
    "private" \in DOMAIN pr_data.base.repo /\ pr_data.base.repo.private

ReviewsInState(state) ==
    {i \in DOMAIN reviews : "state" \in DOMAIN reviews[i] /\ reviews[i].state = state}

FailureRuns ==
    {i \in DOMAIN check_runs :
        "conclusion" \in DOMAIN check_runs[i] /\ check_runs[i].conclusion = "failure"}

PendingRuns ==
    {i \in DOMAIN check_runs :
        /\ "conclusion" \notin DOMAIN check_runs[i]
        /\ ("status" \in DOMAIN check_runs[i] => check_runs[i].status # "completed")}

(* The elements of a sequence at the positions of a set, in order. *)
RECURSIVE AtPositions(_, _, _)
AtPositions(s, positions, from) ==
    IF from > Len(s) THEN <<>>
    ELSE (IF from \in positions THEN <<s[from]>> ELSE <<>>)
           \o AtPositions(s, positions, from + 1)

----------------------------------------------------------------------------
(* C1: for every PRAnalysis, whether analyze_pr is building or has         *)
(* returned it or it was built directly and appended to, is_mergeable is   *)
(* true exactly when the blockers list is empty.                           *)
C1_MergeableIffNoBlockers ==
    Built => (is_mergeable(analysis) <=> analysis.blockers = <<>>)

C1_Witness ==
    /\ Returned
    /\ analysis.blockers # <<>>
    /\ ~is_mergeable(analysis)

(* C2: the returned analysis holds a BRANCH_PROTECTION blocker exactly     *)
(* when mergeable_state is "blocked" and no other blocker was appended;    *)
(* then it is the only blocker, and a blocked PR always has a blocker.     *)
C2_BranchProtectionCatchAll ==
    Returned =>
      /\ HasBlocker("BRANCH_PROTECTION") <=>
            /\ StateIsBlocked
            /\ \A i \in DOMAIN analysis.blockers :
                  analysis.blockers[i].type = "BRANCH_PROTECTION"
      /\ HasBlocker("BRANCH_PROTECTION") => Len(analysis.blockers) = 1
      /\ StateIsBlocked => analysis.blockers # <<>>

C2_Witness ==
    /\ Returned
    /\ StateIsBlocked
    /\ Len(analysis.blockers) = 1
    /\ analysis.blockers[1].type = "BRANCH_PROTECTION"

(* C3: with at least one CHANGES_REQUESTED review and at least one         *)
(* APPROVED review, the returned review_status is changes_requested.       *)
C3_ChangesRequestedWins ==
    (Returned /\ ReviewsInState("CHANGES_REQUESTED") # {}
              /\ ReviewsInState("APPROVED") # {})
      => analysis.review_status = "changes_requested"

(* C4: the returned analysis holds a MISSING_APPROVALS blocker (one)       *)
(* exactly when the base repository is private, mergeable_state is         *)
(* "blocked" and no review is APPROVED; review_status is then pending.     *)
C4_MissingApprovals ==
    Returned =>
      LET missing == RepoIsPrivate /\ StateIsBlocked /\ ReviewsInState("APPROVED") = {}
      IN  /\ Len(BlockersOfType("MISSING_APPROVALS")) = IF missing THEN 1 ELSE 0
          /\ missing => analysis.review_status = "pending"

C4_Witness ==
    /\ Returned
    /\ RepoIsPrivate /\ StateIsBlocked
    /\ ReviewsInState("CHANGES_REQUESTED") # {}
    /\ HasBlocker("MISSING_APPROVALS")
    /\ analysis.review_status = "pending"

(* C5: conflicts_status is conflicts, with exactly one MERGE_CONFLICT      *)
(* blocker, iff mergeable is false or mergeable_state is "dirty";          *)
(* otherwise it is clean when mergeable is true and unknown when mergeable *)
(* is absent, and there is no MERGE_CONFLICT blocker.                      *)
C5_Conflicts ==
    Returned =>
      IF MergeableIs(FALSE) \/ StateIsDirty
      THEN /\ analysis.conflicts_status = "conflicts"
           /\ Len(BlockersOfType("MERGE_CONFLICT")) = 1
      ELSE /\ analysis.conflicts_status = IF MergeableIs(TRUE) THEN "clean" ELSE "unknown"
           /\ ~HasBlocker("MERGE_CONFLICT")

C5_Witness ==
    /\ Returned
    /\ MergeableIs(FALSE)
    /\ "mergeable_state" \in DOMAIN pr_data /\ pr_data.mergeable_state = "clean"
    /\ analysis.conflicts_status = "conflicts"
    /\ HasBlocker("MERGE_CONFLICT")

(* C6: the FAILING_CHECK blockers are, in the order of the input list, one *)
(* per check run whose conclusion is "failure" and none for any other run; *)
(* a list with no failure and no pending run contributes no blocker.       *)
C6_FailingChecks ==
    Returned =>
      /\ LET found == BlockersOfType("FAILING_CHECK")
             failures == AtPositions(check_runs, FailureRuns, 1)
         IN  /\ Len(found) = Len(failures)
             /\ \A i \in DOMAIN failures :
                   found[i].description =
                     "Check '" \o (IF "name" \in DOMAIN failures[i] THEN failures[i].name
                                   ELSE "Unknown check") \o "' failed"
      /\ (FailureRuns = {} /\ PendingRuns = {}) => analysis.blockers = <<>>

C6_Witness ==
    /\ Returned
    /\ Len(check_runs) = 3
    /\ FailureRuns = {1, 3}
    /\ Len(analysis.blockers) = 2
    /\ analysis.blockers[1].description = "Check 'Check 0' failed"
    /\ analysis.blockers[2].description = "Check 'Check 2' failed"

(* text is the last lines, at most 5, of a summary between its first and   *)
(* last written line, joined with the indent.                              *)
LastLinesOf(summary, text) ==
    LET written == {i \in DOMAIN summary : summary[i] \notin {"", " "}}
    IN  IF written = {} THEN text = <<"">>
        ELSE LET lo == CHOOSE i \in written : \A j \in written : i <= j
                 hi == CHOOSE i \in written : \A j \in written : i >= j
                 first == IF hi - lo >= 5 THEN hi - 4 ELSE lo
             IN  /\ Len(text) = hi - first + 1
                 /\ \A k \in 1..Len(text) :
                       text[k] = (IF k = 1 THEN "" ELSE "    ") \o summary[first + k - 1]

C8_PendingChecks ==
    Returned =>
      LET runs == AtPositions(check_runs, PendingRuns, 1)
          names == [i \in DOMAIN runs |->
                      IF "name" \in DOMAIN runs[i] THEN runs[i].name ELSE "Unknown"]
          N == Len(names)
          shown == Join(", ", SubSeq(names, 1, IF N < 3 THEN N ELSE 3))
          found == BlockersOfType("PENDING_CHECKS")
      IN  /\ Len(found) = IF N > 0 THEN 1 ELSE 0
          /\ analysis.pending_check_names = names
          /\ N > 0 =>
                /\ found[1].description = ToString(N) \o " check(s) still running"
                /\ found[1].details =
                     Some(<<IF N > 3 THEN shown \o " and " \o ToString(N - 3) \o " more"
                            ELSE shown>>)

C8_Witness ==
    /\ Returned
    /\ Len(analysis.blockers) = 1
    /\ analysis.blockers[1].type = "PENDING_CHECKS"
    /\ analysis.blockers[1].description = "4 check(s) still running"
    /\ analysis.blockers[1].details = Some(<<"Check 0, Check 1, Check 2 and 1 more">>)
    /\ Len(analysis.pending_check_names) = 4

(* C9: ci_status is failing if any check run has conclusion "failure";     *)
(* else pending if any run is pending; else passing if there is any run;   *)
(* else unknown.                                                           *)
C9_CIStatus ==
    Returned =>
      analysis.ci_status =
        IF FailureRuns # {} THEN "failing"
        ELSE IF PendingRuns # {} THEN "pending"
        ELSE IF check_runs # <<>> THEN "passing"
        ELSE "unknown"

C9_Witness ==
    /\ Returned
    /\ FailureRuns # {}
    /\ PendingRuns # {}
    /\ analysis.ci_status = "failing"

(* The logins of the reviews that request changes, and the ways to list a  *)
(* set with each element once.                                             *)
RequestingLogins ==
    {reviews[i].user.login :
       i \in {j \in ReviewsInState("CHANGES_REQUESTED") :
                /\ "user" \in DOMAIN reviews[j]
                /\ "login" \in DOMAIN reviews[j].user
                /\ reviews[j].user.login # ""}}

EachOnce(S) ==
    {order \in [1..Cardinality(S) -> S] :
       \A v \in S : Cardinality({k \in DOMAIN order : order[k] = v}) = 1}

(* C10: when any review is CHANGES_REQUESTED there is exactly one          *)
(* CHANGES_REQUESTED blocker; its details name each distinct reviewer      *)
(* login once, in some order, or read "Unknown reviewers" when no such     *)
(* review has a login; the step never fails to complete.                   *)
C10_ChangesRequested ==
    /\ pc = "changes" => ENABLED CheckChangesRequested
    /\ (Returned /\ ReviewsInState("CHANGES_REQUESTED") # {}) =>
         LET found == BlockersOfType("CHANGES_REQUESTED")
         IN  /\ Len(found) = 1
             /\ IF RequestingLogins = {}
                THEN found[1].details = Some(<<"Reviewers: Unknown reviewers">>)
                ELSE \E order \in EachOnce(RequestingLogins) :
                       found[1].details = Some(<<"Reviewers: " \o Join(", ", order)>>)

C10_Witness ==
    /\ Returned
    /\ Len(reviews) = 3
    /\ ReviewsInState("CHANGES_REQUESTED") = {1, 2, 3}
    /\ reviews[1] = reviews[3]
    /\ BlockersOfType("CHANGES_REQUESTED")[1].details
         = Some(<<"Reviewers: reviewer2, reviewer1">>)

(* The private-repository heuristic applies to the inputs. *)
HeuristicFires ==
    RepoIsPrivate /\ StateIsBlocked /\ ReviewsInState("APPROVED") = {}

(* C11: with no CHANGES_REQUESTED review, no APPROVED review and the       *)
(* missing-approvals heuristic not firing, the returned review_status is   *)
(* pending when there is any review and none when there is no review; a    *)
(* returned analysis never has review_status unknown.                      *)
C11_ReviewStatusFallback ==
    Returned =>
      /\ analysis.review_status # "unknown"
      /\ (/\ ReviewsInState("CHANGES_REQUESTED") = {}
          /\ ReviewsInState("APPROVED") = {}
          /\ ~HeuristicFires)
           => analysis.review_status = IF Len(reviews) > 0 THEN "pending" ELSE "none"

C11_Witness ==
    /\ Returned
    /\ Len(reviews) = 2
    /\ ReviewsInState("COMMENTED") = {1, 2}
    /\ ~HeuristicFires
    /\ analysis.review_status = "pending"

(* The thread list analyze_pr was given (an absent list counts as empty),  *)
(* and the positions of its threads whose isResolved flag is false; a      *)
(* missing flag has the default false.                                     *)
ThreadList == IF review_threads = None THEN <<>> ELSE review_threads[1]

NotResolved ==
    {i \in DOMAIN ThreadList :
        "isResolved" \in DOMAIN ThreadList[i] => ThreadList[i].isResolved = FALSE}

(* C12: comments_status is none for an absent or empty thread list;        *)
(* resolved, with no UNRESOLVED_COMMENTS blocker and a count of 0, for a   *)
(* non-empty list whose threads are all resolved; unresolved, with exactly *)
(* one UNRESOLVED_COMMENTS blocker whose description carries the number of *)
(* threads that are not resolved, when there is such a thread.  Nothing of *)
(* this depends on isOutdated.                                             *)
C12_CommentsStatus ==
    Returned =>
      LET found == BlockersOfType("UNRESOLVED_COMMENTS")
          N == Cardinality(NotResolved)
      IN  IF ThreadList = <<>>
          THEN analysis.comments_status = "none" /\ found = <<>>
          ELSE IF N = 0
          THEN /\ analysis.comments_status = "resolved"
               /\ found = <<>>
               /\ analysis.unresolved_comment_count = 0
          ELSE /\ analysis.comments_status = "unresolved"
               /\ Len(found) = 1
               /\ found[1].description = ToString(N) \o " unresolved review comment(s)"

C12_Witness ==
    /\ Returned
    /\ Len(ThreadList) = 2
    /\ NotResolved = {1}
    /\ ThreadList[1].isOutdated /\ "isResolved" \in DOMAIN ThreadList[1]
    /\ analysis.comments_status = "unresolved"
    /\ BlockersOfType("UNRESOLVED_COMMENTS")[1].description
         = "1 unresolved review comment(s)"

(* The positions of the threads whose first comment supplies a URL. *)
WithUrl ==
    {i \in DOMAIN ThreadList :
        /\ "comments" \in DOMAIN ThreadList[i]
        /\ "nodes" \in DOMAIN ThreadList[i].comments
        /\ Len(ThreadList[i].comments.nodes) > 0
        /\ "url" \in DOMAIN ThreadList[i].comments.nodes[1]
        /\ ThreadList[i].comments.nodes[1].url # ""}

(* C13: unresolved_comment_urls holds, in thread order, the URL of the     *)
(* first comment of each unresolved thread that supplies one, and nothing  *)
(* else; an unresolved thread without such a URL is still counted and      *)
(* still gives the blocker, so the URLs are at most as many as the count;  *)
(* the step always completes; no URL of a resolved thread appears.         *)
C13_UnresolvedUrls ==
    /\ pc = "comments" => ENABLED CheckUnresolvedComments
    /\ Returned =>
         LET linked == AtPositions(ThreadList, NotResolved \cap WithUrl, 1)
             urls == analysis.unresolved_comment_urls
         IN  /\ urls = [k \in DOMAIN linked |-> linked[k].comments.nodes[1].url]
             /\ analysis.unresolved_comment_count = Cardinality(NotResolved)
             /\ HasBlocker("UNRESOLVED_COMMENTS") <=> NotResolved # {}
             /\ Len(urls) <= analysis.unresolved_comment_count
             /\ \A i \in WithUrl \ NotResolved :
                   \A k \in DOMAIN urls : urls[k] # ThreadList[i].comments.nodes[1].url

C13_Witness ==
    /\ Returned
    /\ Len(ThreadList) = 2
    /\ NotResolved = {1, 2}
    /\ WithUrl = {2}
    /\ analysis.unresolved_comment_count = 2
    /\ analysis.unresolved_comment_urls
         = <<"https://github.com/owner/repo/pull/123#discussion_r2">>
    /\ HasBlocker("UNRESOLVED_COMMENTS")

(* The place of each kind of blocker in the order of detection. *)
DetectionRank(type) ==
    CASE type = "MERGE_CONFLICT" -> 1
      [] type = "FAILING_CHECK" -> 2
      [] type = "PENDING_CHECKS" -> 3
      [] type = "CHANGES_REQUESTED" -> 4
      [] type = "MISSING_APPROVALS" -> 5
      [] type = "UNRESOLVED_COMMENTS" -> 6
      [] type = "BRANCH_PROTECTION" -> 7

BlockerKinds == [i \in DOMAIN analysis.blockers |-> analysis.blockers[i].type]

(* C14: at every point of analyze_pr and in the analysis it returns, the   *)
(* blockers are in detection order: MERGE_CONFLICT, then every             *)
(* FAILING_CHECK, then PENDING_CHECKS, CHANGES_REQUESTED,                  *)
(* MISSING_APPROVALS, UNRESOLVED_COMMENTS, and BRANCH_PROTECTION last.     *)
C14_DetectionOrder ==
    Built =>
      \A i, j \in DOMAIN BlockerKinds :
         i < j =>
           \/ DetectionRank(BlockerKinds[i]) < DetectionRank(BlockerKinds[j])
           \/ BlockerKinds[i] = "FAILING_CHECK" /\ BlockerKinds[j] = "FAILING_CHECK"

C14_Witness ==
    /\ Returned
    /\ BlockerKinds = <<"MERGE_CONFLICT", "FAILING_CHECK", "PENDING_CHECKS",
                        "CHANGES_REQUESTED", "MISSING_APPROVALS", "UNRESOLVED_COMMENTS">>

(* C15: analyze_pr is deterministic: a second invocation on the same       *)
(* arguments, in the same or in another run of the program, returns an     *)
(* analysis identical to the first, blockers in the same order with the    *)
(* same description and details, the reviewer list of a CHANGES_REQUESTED  *)
(* blocker with several distinct reviewers included.                       *)
C15_Deterministic ==
    (Returned /\ previous # None) => analysis = previous[1]

(* The PR snapshot carries the four identity fields. *)
IdentityGiven ==
    /\ {"base", "number", "title", "html_url"} \subseteq DOMAIN pr_data
    /\ "repo" \in DOMAIN pr_data.base
    /\ "full_name" \in DOMAIN pr_data.base.repo

Raised == pc = "raised"

(* C16: for an input that has the four identity fields, whatever optional  *)
(* data it leaves out (mergeable, mergeable_state, the private flag, a     *)
(* review's user or login, a check run's name, status, conclusion, output  *)
(* or summary, a thread's isResolved or comments), analyze_pr never        *)
(* raises; every step before the return can be taken, and what is returned *)
(* is an analysis.                                                         *)
C16_NeverRaisesOnOmission ==
    IdentityGiven =>
      /\ ~Raised
      /\ ~Returned => ENABLED NextAnalyze
      /\ Returned => analysis # None

C16_Witness ==
    /\ Returned
    /\ DOMAIN pr_data = {"base", "number", "title", "html_url"}
    /\ DOMAIN pr_data.base.repo = {"full_name"}
    /\ Len(check_runs) = 1 /\ DOMAIN check_runs[1] = {"conclusion"}
    /\ Len(ThreadList) = 1 /\ DOMAIN ThreadList[1] = {}
    /\ analysis.conflicts_status = "unknown"
    /\ BlockerKinds = <<"FAILING_CHECK", "UNRESOLVED_COMMENTS">>

(* C17: when an identity field (base repository full name, number, title,  *)
(* URL) is missing, analyze_pr raises at its start and there is no         *)
(* analysis, partial or otherwise; it raises for no other input.           *)
C17_IdentityRequired ==
    /\ pc = "start" => ENABLED Construct
    /\ ~IdentityGiven => pc \in {"start", "raised"} /\ analysis = None
    /\ Raised => ~IdentityGiven /\ analysis = None

C17_Witness ==
    /\ Raised
    /\ DOMAIN pr_data = {"base", "number", "html_url"}
    /\ "repo" \in DOMAIN pr_data.base /\ "full_name" \in DOMAIN pr_data.base.repo
    /\ Len(check_runs) = 1 /\ Len(reviews) = 1
    /\ analysis = None

(* The analysis with its review labels and state. *)
Complete == pc = "complete"

LabelList == IF "labels" \in DOMAIN pr_data THEN pr_data.labels ELSE <<>>

(* The status prefixes and what they stand for; the user names that mark a *)
(* bot; the review labels a label name can be read as.                     *)
StatusPrefixes ==
    {<<"lgtm-", "lgtm">>, <<"approved-", "approved">>,
     <<"changes-requested-", "changes-requested">>,
     <<"change-requested-", "changes-requested">>}

NamedBot(user) ==
    \/ user \in {"coderabbitai", "openshift-virtualization-qe-bot"}
    \/ \E k \in 0..Len(user) : user = SubSeq(user, 1, k) \o "[bot]"

ReadAs(name) ==
    {ReviewLabel(pair[1], pair[2][2]) :
       pair \in {p \in LabelUsers \X StatusPrefixes :
                   ~NamedBot(p[1]) /\ name = p[2][1] \o p[1]}}

(* C18: review_labels lists, in the order of the PR's labels, one entry    *)
(* for each label named lgtm-<user>, approved-<user>,                      *)
(* changes-requested-<user> or change-requested-<user> whose user is not a *)
(* bot, with that user and status; any other label, commented-<user>       *)
(* included, gives none; entries of one user under several statuses are    *)
(* all kept; absent or empty labels give an empty list.                    *)
C18_ReviewLabels ==
    Complete =>
      LET kept == AtPositions(LabelList,
                              {i \in DOMAIN LabelList : ReadAs(LabelList[i].name) # {}}, 1)
          found == analysis.review_labels
      IN  /\ Len(found) = Len(kept)
          /\ \A k \in DOMAIN kept : found[k] \in ReadAs(kept[k].name)

C18_Witness ==
    /\ Complete
    /\ LabelList = <<[name |-> "lgtm-alice"], [name |-> "approved-alice"]>>
    /\ analysis.review_labels
         = <<ReviewLabel("alice", "lgtm"), ReviewLabel("alice", "approved")>>

(* C19: a label made of a status prefix and a user gives no review label   *)
(* when the user is coderabbitai, openshift-virtualization-qe-bot or a     *)
(* name ending in [bot], whatever the prefix, and gives one for any other  *)
(* user.                                                                   *)
C19_BotsFiltered ==
    Complete =>
      \A i \in DOMAIN LabelList, form \in StatusPrefixes, user \in LabelUsers :
         LabelList[i].name = form[1] \o user =>
           (NamedBot(user) <=>
              ~\E k \in DOMAIN analysis.review_labels :
                  analysis.review_labels[k] = ReviewLabel(user, form[2]))

C19_Witness ==
    /\ Complete
    /\ LabelList = <<[name |-> "approved-somebot[bot]"], [name |-> "lgtm-robot"]>>
    /\ analysis.review_labels = <<ReviewLabel("robot", "lgtm")>>

(* The title, after any leading whitespace, begins with wip:, [wip] or     *)
(* "wip " in any mix of upper and lower case.                              *)
WipMarkers ==
    UNION {{wip \o ":", "[" \o wip \o "]", wip \o " "} :
             wip \in {w \o i \o p : w \in {"w", "W"}, i \in {"i", "I"}, p \in {"p", "P"}}}

TitleIsWip ==
    \E lead \in 0..Len(pr_data.title) :
       /\ \A k \in 1..lead : SubSeq(pr_data.title, k, k) \in {" ", "\t"}
       /\ \E marker \in WipMarkers :
             /\ lead + Len(marker) <= Len(pr_data.title)
             /\ SubSeq(pr_data.title, lead + 1, lead + Len(marker)) = marker

FlagSet(key) == key \in DOMAIN pr_data /\ pr_data[key] = TRUE

StateClosed == "state" \in DOMAIN pr_data /\ pr_data.state = "closed"

(* C20: state is one tag by strict priority: merged when the merged flag   *)
(* is true, even if the PR is also draft or closed; else closed when the   *)
(* state field is closed; else draft when the draft flag is true; else wip *)
(* when the title marks work in progress; else open.                       *)
C20_StatePriority ==
    Complete =>
      /\ FlagSet("merged") => analysis.state = "merged"
      /\ (~FlagSet("merged") /\ StateClosed) => analysis.state = "closed"
      /\ (~FlagSet("merged") /\ ~StateClosed /\ FlagSet("draft"))
           => analysis.state = "draft"
      /\ (~FlagSet("merged") /\ ~StateClosed /\ ~FlagSet("draft"))
           => analysis.state = IF TitleIsWip THEN "wip" ELSE "open"

C20_Witness ==
    /\ Complete
    /\ FlagSet("merged") /\ FlagSet("draft") /\ StateClosed
    /\ pr_data.title = "[WIP] some feature"
    /\ analysis.state = "merged"

(* C21: in a returned analysis the counts agree with the lists:            *)
(* failed_check_count is the length of failed_check_names and the number   *)
(* of FAILING_CHECK blockers; pending_check_count is the length of         *)
(* pending_check_names and is positive exactly when there is a             *)
(* PENDING_CHECKS blocker; unresolved_comment_count is the number of       *)
(* threads that are not resolved and is positive exactly when there is an  *)
(* UNRESOLVED_COMMENTS blocker; no count is negative.                      *)
C21_CountsAgree ==
    Returned =>
      /\ analysis.failed_check_count = Len(analysis.failed_check_names)
      /\ analysis.failed_check_count = Len(BlockersOfType("FAILING_CHECK"))
      /\ analysis.pending_check_count = Len(analysis.pending_check_names)
      /\ analysis.pending_check_count > 0 <=> HasBlocker("PENDING_CHECKS")
      /\ analysis.unresolved_comment_count = Cardinality(NotResolved)
      /\ analysis.unresolved_comment_count > 0 <=> HasBlocker("UNRESOLVED_COMMENTS")
      /\ analysis.failed_check_count >= 0
      /\ analysis.pending_check_count >= 0
      /\ analysis.unresolved_comment_count >= 0

C21_Witness ==
    /\ Returned
    /\ analysis.failed_check_count = 1
    /\ analysis.pending_check_count = 1
    /\ analysis.unresolved_comment_count = 1
    /\ Len(analysis.blockers) >= 3

(* C22: in a returned analysis every blocking status has a blocker of its  *)
(* kind: ci_status failing a FAILING_CHECK, ci_status pending a            *)
(* PENDING_CHECKS, review_status changes_requested a CHANGES_REQUESTED,    *)
(* comments_status unresolved an UNRESOLVED_COMMENTS and conflicts_status  *)
(* conflicts a MERGE_CONFLICT blocker.                                     *)
C22_StatusJustified ==
    Returned =>
      /\ analysis.ci_status = "failing" => HasBlocker("FAILING_CHECK")
      /\ analysis.ci_status = "pending" => HasBlocker("PENDING_CHECKS")
      /\ analysis.review_status = "changes_requested" => HasBlocker("CHANGES_REQUESTED")
      /\ analysis.comments_status = "unresolved" => HasBlocker("UNRESOLVED_COMMENTS")
      /\ analysis.conflicts_status = "conflicts" => HasBlocker("MERGE_CONFLICT")

C22_Witness ==
    /\ Returned
    /\ analysis.ci_status = "failing"
    /\ analysis.review_status = "changes_requested"
    /\ analysis.comments_status = "unresolved"
    /\ analysis.conflicts_status = "conflicts"
    /\ BlockerKinds = <<"MERGE_CONFLICT", "FAILING_CHECK", "CHANGES_REQUESTED",
                        "UNRESOLVED_COMMENTS">>

(* The segments that name something, and the pair a URL of these segments  *)
(* stands for: the two after the first "repos" when there is one, the      *)
(* first two otherwise; None when the two are not there.                   *)
NamedSegments(segments) == SelectSeq(segments, LAMBDA p : p # "")

PairOf(segments) ==
    LET named == NamedSegments(segments)
        skip == IF \E i \in DOMAIN named : named[i] = "repos"
                THEN CHOOSE i \in DOMAIN named :
                       named[i] = "repos" /\ \A j \in 1..(i - 1) : named[j] # "repos"
                ELSE 0
    IN  IF Len(named) >= skip + 2 THEN Some(<<named[skip + 1], named[skip + 2]>>)
        ELSE None

GitHubHosts == {"github.com", "www.github.com", "api.github.com"}

(* C27: parse_repo_from_url returns the owner and the repository as the    *)
(* first two non-empty path segments of a URL of github.com,               *)
(* www.github.com or api.github.com, or as the two segments after a repos  *)
(* segment when there is one, whatever slashes, segments or query follow;  *)
(* it raises ValueError when the host is another one, when the URL has no  *)
(* scheme and when the two segments are not there; what it returns is      *)
(* always a pair of two non-empty names.                                   *)
C27_ParseRepo ==
    parsed # None =>
      /\ \A scheme \in UrlSchemes, host \in UrlHosts :
           StartsWith(repo_url, scheme \o host) =>
             \A segments \in SeqUpTo(UrlSegments, MaxSegments), query \in UrlQueries :
               repo_url = UrlOf(scheme, host, segments, query) =>
                 IF scheme # "" /\ host \in GitHubHosts /\ PairOf(segments) # None
                 THEN parsed = Returns(PairOf(segments)[1])
                 ELSE "raises" \in DOMAIN parsed /\ parsed.raises = "ValueError"
      /\ "returns" \in DOMAIN parsed =>
           /\ Len(parsed.returns) = 2
           /\ \A i \in 1..2 : parsed.returns[i] # ""

C27_Witness ==
    /\ repo_url = "https://api.github.com/repos/octo/hello?tab=files"
    /\ parsed = Returns(<<"octo", "hello">>)

(* What the HTTP library did with the request. *)
TransportFailed ==
    \/ "exception" \in DOMAIN transport[1]
    \/ "status" \in DOMAIN transport[1] /\ transport[1].status \in ErrorStatuses

RaisedBy(outcome, type) == "raises" \in DOMAIN outcome /\ outcome.raises = type

(* C26: every transport failure of _request, an HTTP error status, a       *)
(* timeout or a failure of the connection, reaches the caller as a         *)
(* ValueError and never as an exception of the HTTP library; a 401 is      *)
(* reported as an invalid or expired token, and a successful request       *)
(* returns the decoded JSON unchanged.                                     *)
C26_SingleErrorType ==
    request_outcome # None =>
      /\ TransportFailed => RaisedBy(request_outcome, "ValueError")
      /\ transport = Some(Response(401, [message |-> "error"])) =>
           request_outcome = Raises("ValueError", "Invalid or expired GitHub token")
      /\ ~TransportFailed => request_outcome = Returns(transport[1].body)

(* The batch a run has analysed, and how many of its analyses are ready. *)
Batch == run.analyses

ReadyIn(batch) == Cardinality({k \in DOMAIN batch : batch[k].blockers = <<>>})

BlockedIn(batch) == Cardinality({k \in DOMAIN batch : batch[k].blockers # <<>>})

Displayed == run # None /\ console # <<>>

Exported == run # None /\ files # <<>>

(* C23: the summary of display_results and the statistics of               *)
(* export_to_html report as ready the number of analyses of the batch that *)
(* are mergeable and as blocked the number that are not, so that ready and *)
(* blocked add up to the total; the two agree on both counts, which depend *)
(* on nothing but is_mergeable.                                            *)
C23_SummaryCounts ==
    /\ Displayed =>
         LET shown == console[Len(console)]
         IN  /\ shown.ready = ReadyIn(Batch)
             /\ shown.blocked = BlockedIn(Batch)
             /\ shown.ready + shown.blocked = shown.total
             /\ shown.total = Len(Batch)
    /\ Exported =>
         LET written == files[Len(files)]
         IN  /\ written.ready = ReadyIn(Batch)
             /\ written.blocked = BlockedIn(Batch)
             /\ written.ready + written.blocked = written.total
             /\ written.total = Len(Batch)
             /\ written.ready = console[Len(console)].ready
             /\ written.blocked = console[Len(console)].blocked

C23_Witness ==
    /\ Displayed
    /\ Exported
    /\ files[1].ready = 1
    /\ files[1].blocked = 1
    /\ console[1].ready = 1
    /\ console[1].blocked = 1
    /\ Batch[1].failed_check_count = 0
    /\ Batch[1].blockers # <<>>

(* The run ended on an exception that a fetch of the client raised. *)
Fetches ==
    {"get_authenticated_user", "get_user_open_prs", "get_pr_details", "get_pr_reviews",
     "get_pr_review_comments", "get_check_runs"}

FetchFailed == run # None /\ run.error # None /\ run.error[1].raised_in \in Fetches

(* C24: when a fetch of analyze_user_prs fails, be it of the authenticated *)
(* user, of the list of pull requests or of the details, the reviews, the  *)
(* comments or the check runs of any pull request, and whatever the        *)
(* exception, the run ends with exit code 1 and display_results and        *)
(* export_to_html are not invoked, before or after, even when earlier pull *)
(* requests of the batch were analysed.                                    *)
C24_FetchFailureExits ==
    FetchFailed =>
      /\ run.exit_code = Some(1)
      /\ console = <<>>
      /\ files = <<>>
      /\ ~ENABLED (DisplayResults \/ ExportToHtml)

C24_Witness ==
    /\ FetchFailed
    /\ run.error[1].raised_in = "get_pr_reviews"
    /\ run.error[1].type = "ReadError"
    /\ Len(run.analyses) >= 1
    /\ run.html_output # None

(* The run returned without an error. *)
Succeeded == run # None /\ run.pc = "returned"

(* analyze_pr runs on what GitHub holds for the pull request whose turn it *)
(* is, the check runs being those of the head of its own details.          *)
InvokedOnOwnData ==
    (run # None /\ run.pc = "analysing") =>
      LET k == Len(run.analyses) + 1
          n == run.prs[k].number
      IN  /\ run.pr = k
          /\ pr_data = PullOfPR(n)
          /\ reviews = ReviewsOfPR(n)
          /\ review_threads = Some(CommentsOfPR(n))
          /\ \E m \in GitHubPRs : /\ ShaOfPR(m) = pr_data.head.sha
                                  /\ check_runs = CheckRunsOfPR(m)
                                  /\ m = n

(* The analyses so far are those of the first pull requests of the list,   *)
(* one each, in the order of the list.                                     *)
AnalysedInOrder ==
    run # None =>
      /\ Len(run.analyses) <= Len(run.prs)
      /\ \A k \in DOMAIN run.analyses :
           /\ run.analyses[k].pr_number = run.prs[k].number
           /\ run.analyses[k].repo = "octo/" \o RepoOfPR(run.prs[k].number)
           /\ run.analyses[k].title = run.prs[k].title

(* display_results was called once, on an analysis for each pull request. *)
DisplayedOnce ==
    /\ Len(run.analyses) = Len(run.prs)
    /\ Len(console) = 1
    /\ console[1].total = Len(run.prs)
    /\ \A k \in DOMAIN run.prs : console[1].rows[k].pr_number = run.prs[k].number

(* C25, as stated: in a successful run over N open pull requests           *)
(* analyze_pr is invoked once for each, in the order of the list and on    *)
(* the data fetched for it, and display_results is then called exactly     *)
(* once with the N analyses in that order, for every N.                    *)
C25_OncePerPR_AnyN ==
    /\ InvokedOnOwnData
    /\ AnalysedInOrder
    /\ Succeeded => DisplayedOnce

(* C25, amended: the same for N >= 1; a run that finds no open pull        *)
(* request returns without calling display_results or export_to_html.      *)
C25_OncePerPR ==
    /\ InvokedOnOwnData
    /\ AnalysedInOrder
    /\ (Succeeded /\ run.prs # <<>>) => DisplayedOnce
    /\ (Succeeded /\ run.prs = <<>>) => console = <<>> /\ files = <<>>

C25_Witness ==
    /\ Succeeded
    /\ Len(run.prs) = 2
    /\ run.prs[1].number = 3
    /\ run.prs[2].number = 2
    /\ DisplayedOnce
    /\ run.analyses[1].failed_check_names = <<"build-3">>
    /\ run.analyses[2].unresolved_comment_count = 2

(* The thread list is not empty and none of its records says whether it   *)
(* is resolved, as the review comments of the REST API.                    *)
NoneSaysResolved ==
    /\ ThreadList # <<>>
    /\ \A i \in DOMAIN ThreadList : "isResolved" \notin DOMAIN ThreadList[i]

(* C29: a thread record without isResolved counts as unresolved: for a     *)
(* non-empty list of such records, as the review comments that             *)
(* analyze_user_prs passes for the threads, comments_status is unresolved, *)
(* one UNRESOLVED_COMMENTS blocker counts every record and the pull        *)
(* request is not mergeable.                                               *)
C29_RestCommentsBlock ==
    /\ (Returned /\ NoneSaysResolved) =>
         /\ analysis.comments_status = "unresolved"
         /\ analysis.unresolved_comment_count = Len(ThreadList)
         /\ Len(BlockersOfType("UNRESOLVED_COMMENTS")) = 1
         /\ BlockersOfType("UNRESOLVED_COMMENTS")[1].description =
              ToString(Len(ThreadList)) \o " unresolved review comment(s)"
         /\ ~is_mergeable(analysis)
    /\ run # None =>
         \A k \in DOMAIN run.analyses :
           CommentsOfPR(run.prs[k].number) # <<>> =>
             /\ run.analyses[k].comments_status = "unresolved"
             /\ run.analyses[k].unresolved_comment_count =
                  Len(CommentsOfPR(run.prs[k].number))
             /\ run.analyses[k].blockers # <<>>

C29_Witness ==
    /\ Returned
    /\ NoneSaysResolved
    /\ run # None
    /\ run.pc = "returned"
    /\ review_threads = Some(<<ReviewComment(2, 1), ReviewComment(2, 2)>>)
    /\ BlockerKinds = <<"UNRESOLVED_COMMENTS">>
    /\ console[1].blocked = 1

SevenKinds ==
    {"MERGE_CONFLICT", "FAILING_CHECK", "PENDING_CHECKS", "CHANGES_REQUESTED",
     "MISSING_APPROVALS", "UNRESOLVED_COMMENTS", "BRANCH_PROTECTION"}

NeitherRuns == DOMAIN check_runs \ (FailureRuns \cup PendingRuns)

(* C30: no check run counts as failing and as pending, so that             *)
(* failed_check_count + pending_check_count is at most the number of check *)
(* runs; a run that is neither, completed without a conclusion or with a   *)
(* conclusion other than failure, adds no blocker, and a list of such runs *)
(* gives ci_status passing.                                                *)
C30_FailingPendingDisjoint ==
    Returned =>
      /\ analysis.failed_check_count + analysis.pending_check_count <= Len(check_runs)
      /\ analysis.failed_check_count + analysis.pending_check_count
           = Len(check_runs) - Cardinality(NeitherRuns)
      /\ Len(BlockersOfType("FAILING_CHECK")) = Cardinality(FailureRuns)
      /\ Len(BlockersOfType("PENDING_CHECKS")) = IF PendingRuns = {} THEN 0 ELSE 1
      /\ (check_runs # <<>> /\ NeitherRuns = DOMAIN check_runs) =>
           /\ analysis.ci_status = "passing"
           /\ analysis.blockers = <<>>

C30_Witness ==
    /\ Returned
    /\ Len(check_runs) = 3
    /\ check_runs[1] = CheckAt(1, "completed_only")
    /\ check_runs[2] = CheckAt(2, "cancelled")
    /\ check_runs[3] = CheckAt(3, "passed")
    /\ analysis.ci_status = "passing"
    /\ analysis.blockers = <<>>

====
